---- MODULE Spec2Model ----
(***************************************************************************)
(* Model of scripts/rare/setup-netops-server.py: the idempotent host       *)
(* provisioning script of suiftly-co.  One action per step function of the *)
(* fixed step list of main(); the host (packages, users, databases, the    *)
(* deployment configuration file) is part of the state, and the outcome of *)
(* every external command that the host does not determine (network,       *)
(* apt, npm) is a nondeterministic choice.                                 *)
(***************************************************************************)
EXTENDS Integers, Sequences, FiniteSets, TLC

VARIABLES
    pc,            \* position of main(): "start", "steps", "summary", "exited"
    idx,           \* index in Steps of the next step of the for loop
    exitCode,      \* exit status of the process, NoExit while it is running
    failed_steps,  \* SetupContext.failed_steps
    warnings,      \* SetupContext.warnings
    host,          \* the live host the script probes and mutates
    outcome,       \* per step: what the step reported in this run
    mutated,       \* per step: mutating commands the step executed in this run
    raised,        \* per step: "none", "handled" (caught in the step), "propagated"
    printedWarn,   \* failed non-fatal actions reported with print_warning in this run
    summary,       \* final summary block printed by main()
    run,           \* number of the current invocation of the script
    prevExit,      \* exit status of the previous invocation
    prevRemediated, \* probed steps that reported a remediation in the previous invocation
    rc_call,       \* run_command: the last call (what the child does, the check flag)
    rc_result,     \* run_command: what the last call did (returned tuple or raised)
    rc_calls,      \* run_command: number of calls made
    t_env,         \* run-all-tests.py: the configuration files and the repository it finds
    t_proc,        \* run-all-tests.py: per runner process, its position and local variables
    fs,            \* /tmp: the summary path, its .tmp path and the files behind them
    t_versions,    \* the documents renamed onto the summary path, in order
    mon_seen,      \* what the monitor last read at the summary path
    demo           \* inject-demo.py: its inputs, position, child and exit status

\* the state of the setup run
setupVars == <<pc, idx, exitCode, failed_steps, warnings, host, outcome, mutated,
               raised, printedWarn, summary, run, prevExit, prevRemediated>>

\* the state of the run_command calls observed on their own
cmdVars == <<rc_call, rc_result, rc_calls>>

\* the state of the test runner, of the summary file and of its monitor
runnerVars == <<t_env, t_proc, fs, t_versions, mon_seen>>

\* the state of the demo-injection wrapper
demoVars == <<demo>>

\* the state outside the setup run
otherVars == <<cmdVars, runnerVars, demoVars>>

vars == <<setupVars, otherVars>>

----------------------------------------------------------------------------
(* Bounds                                                                   *)

\* number of facts in which the initial host differs from a converged host
MaxDeviations == 1
\* number of invocations of the script against the same host
MaxRuns == 2

\* number of non-fatal command failures the environment causes in one run
MaxFaults == 1

\* number of run_command calls in a row
MaxCalls == 5
\* largest ordinary exit status a child returns (127 is always included)
MaxExitCode == 3

\* exitCode while the process is still running
NoExit == 0 - 1

----------------------------------------------------------------------------
(* Text: a string is a sequence of one-character strings                    *)

UpperCase == <<"A","B","C","D","E","F","G","H","I","J","K","L","M",
               "N","O","P","Q","R","S","T","U","V","W","X","Y","Z">>
LowerCase == <<"a","b","c","d","e","f","g","h","i","j","k","l","m",
               "n","o","p","q","r","s","t","u","v","w","x","y","z">>

Whitespace == {" ", "\t", "\n", "\r"}
Quotes == {"\"", "'"}

\* str.lower() on one character
LowerChar(c) ==
    IF \E i \in 1..26 : UpperCase[i] = c
    THEN LowerCase[CHOOSE i \in 1..26 : UpperCase[i] = c]
    ELSE c

\* a lower() that leaves the text as it is
Lower_asWritten(s) == s

\* str.lower()
Lower(s) == [i \in 1..Len(s) |-> LowerChar(s[i])]

RECURSIVE LStrip(_, _)
\* str.lstrip(chars)
LStrip(s, chars) ==
    IF s # <<>> /\ s[1] \in chars THEN LStrip(Tail(s), chars) ELSE s

RECURSIVE RStrip(_, _)
\* str.rstrip(chars)
RStrip(s, chars) ==
    IF s # <<>> /\ s[Len(s)] \in chars
    THEN RStrip(SubSeq(s, 1, Len(s) - 1), chars) ELSE s

\* str.strip(chars)
Strip(s, chars) == RStrip(LStrip(s, chars), chars)

\* str.startswith(prefix)
StartsWith(s, prefix) ==
    /\ Len(s) >= Len(prefix)
    /\ SubSeq(s, 1, Len(prefix)) = prefix

\* str.split('=', 1)[1] for a string that contains '='
AfterFirstEq(s) ==
    LET i == CHOOSE k \in 1..Len(s) :
                 s[k] = "=" /\ \A j \in 1..(k - 1) : s[j] # "="
    IN SubSeq(s, i + 1, Len(s))

DEPLOYMENT_TYPE_EQ ==
    <<"D","E","P","L","O","Y","M","E","N","T","_","T","Y","P","E","=">>
production == <<"p","r","o","d","u","c","t","i","o","n">>
development == <<"d","e","v","e","l","o","p","m","e","n","t">>
staging == <<"s","t","a","g","i","n","g">>
Production == <<"P","r","o","d","u","c","t","i","o","n">>

\* the value None of deployment_type
None == <<"<None>">>

RECURSIVE ReadDeploymentType(_)
\* the loop `for line in f` of setup_postgresql_databases and of
\* setup_database_permissions: the value of the first DEPLOYMENT_TYPE= line
ReadDeploymentType(lines) ==
    IF lines = <<>> THEN None
    ELSE LET line == Strip(lines[1], Whitespace)
         IN IF line = <<>> \/ StartsWith(line, <<"#">>)
            THEN ReadDeploymentType(Tail(lines))
            ELSE IF StartsWith(line, DEPLOYMENT_TYPE_EQ)
                 THEN Lower(Strip(AfterFirstEq(line), Quotes))
                 ELSE ReadDeploymentType(Tail(lines))

\* a truth test that only recognises None
Falsy_noneOnly(v) == v = None

\* `not deployment_type`: None or the empty string
Falsy(v) == v = None \/ v = <<>>

\* a database selection that ignores the deployment mode
DatabasesFor_everyMode(deployment_type) ==
    <<"suiftly_prod", "suiftly_dev", "suiftly_test">>

\* a database selection that takes every mode but development for production
DatabasesFor_onlyDevelopmentIsDev(deployment_type) ==
    IF deployment_type = development
    THEN <<"suiftly_dev", "suiftly_test">>
    ELSE <<"suiftly_prod">>

\* the list `databases` both steps derive from deployment_type
DatabasesFor(deployment_type) ==
    IF deployment_type = production
    THEN <<"suiftly_prod">>
    ELSE <<"suiftly_dev", "suiftly_test">>

----------------------------------------------------------------------------
(* The deployment configuration file /etc/walrus/system.conf               *)

ConfProduction == [exists |-> TRUE,
    lines |-> << <<"#"," ","c">>, <<>>, DEPLOYMENT_TYPE_EQ \o production >>]
ConfDevelopment == [exists |-> TRUE,
    lines |-> << DEPLOYMENT_TYPE_EQ \o development >>]
ConfMissing == [exists |-> FALSE, lines |-> <<>>]
ConfNoKey == [exists |-> TRUE,
    lines |-> << <<"#">> \o DEPLOYMENT_TYPE_EQ \o production, <<"O","=","1">> >>]
ConfEmptyValue == [exists |-> TRUE, lines |-> << DEPLOYMENT_TYPE_EQ >>]
ConfEmptyQuoted == [exists |-> TRUE,
    lines |-> << DEPLOYMENT_TYPE_EQ \o <<"\"", "\"">> >>]
ConfQuotedUpper == [exists |-> TRUE,
    lines |-> << <<" ">> \o DEPLOYMENT_TYPE_EQ \o <<"'">> \o Production \o <<"'", " ">> >>]
ConfStaging == [exists |-> TRUE,
    lines |-> << DEPLOYMENT_TYPE_EQ \o staging >>]
ConfTwoKeys == [exists |-> TRUE,
    lines |-> << DEPLOYMENT_TYPE_EQ \o development,
                 DEPLOYMENT_TYPE_EQ \o production >>]

----------------------------------------------------------------------------
(* The host                                                                 *)

AudioPackages == <<"libasound2t64", "libasound2">>

\* a host on which every probe of the script is satisfied (production mode)
ConvergedHost ==
    [ euid       |-> 0,
      osrel      |-> [exists |-> TRUE, id |-> "ubuntu", version |-> "24.04"],
      sudo_user  |-> "alice",
      user       |-> "root",
      nvm        |-> "v22",
      missing    |-> {},
      audio      |-> {"libasound2t64"},
      node       |-> "v22",
      pm2        |-> TRUE,
      psql       |-> "17",
      tsdb       |-> TRUE,
      dbs        |-> {"suiftly_prod"},
      ext        |-> {"suiftly_prod"},
      role       |-> TRUE,
      pymissing  |-> {},
      nginx      |-> TRUE,
      ipv6       |-> TRUE,
      certbot    |-> TRUE,
      deployUser |-> TRUE,
      dirs       |-> TRUE,
      owner      |-> "deploy",
      project    |-> [dir |-> TRUE, pkgjson |-> TRUE, dbpkg |-> TRUE],
      deps       |-> TRUE,
      schema     |-> TRUE,
      conf       |-> ConfProduction ]

DeviationIds == 1..40

\* the i-th way in which a host can differ from a converged one
Deviate(i, h) ==
    CASE i = 1  -> [h EXCEPT !.euid = 1000]
      [] i = 2  -> [h EXCEPT !.osrel.exists = FALSE]
      [] i = 3  -> [h EXCEPT !.osrel.id = "debian"]
      [] i = 4  -> [h EXCEPT !.osrel.version = "22.04"]
      [] i = 5  -> [h EXCEPT !.osrel.version = ""]
      [] i = 6  -> [h EXCEPT !.sudo_user = ""]
      [] i = 7  -> [h EXCEPT !.sudo_user = "", !.user = ""]
      [] i = 8  -> [h EXCEPT !.sudo_user = "ghost"]
      [] i = 9  -> [h EXCEPT !.nvm = "nodir"]
      [] i = 10 -> [h EXCEPT !.nvm = "v20"]
      [] i = 11 -> [h EXCEPT !.missing = {"git"}]
      [] i = 12 -> [h EXCEPT !.audio = {}]
      [] i = 13 -> [h EXCEPT !.node = "absent"]
      [] i = 14 -> [h EXCEPT !.node = "v20"]
      [] i = 15 -> [h EXCEPT !.pm2 = FALSE]
      [] i = 16 -> [h EXCEPT !.psql = "absent"]
      [] i = 17 -> [h EXCEPT !.psql = "16"]
      [] i = 18 -> [h EXCEPT !.psql = "unparsable"]
      [] i = 19 -> [h EXCEPT !.tsdb = FALSE]
      [] i = 20 -> [h EXCEPT !.dbs = {}, !.ext = {}]
      [] i = 21 -> [h EXCEPT !.role = FALSE]
      [] i = 22 -> [h EXCEPT !.pymissing = {"python3-click"}]
      [] i = 23 -> [h EXCEPT !.nginx = FALSE]
      [] i = 24 -> [h EXCEPT !.nginx = FALSE, !.ipv6 = FALSE]
      [] i = 25 -> [h EXCEPT !.certbot = FALSE]
      [] i = 26 -> [h EXCEPT !.deployUser = FALSE, !.owner = "root"]
      [] i = 27 -> [h EXCEPT !.dirs = FALSE, !.owner = "root"]
      [] i = 28 -> [h EXCEPT !.project.dir = FALSE, !.deps = FALSE, !.schema = FALSE]
      [] i = 29 -> [h EXCEPT !.project.pkgjson = FALSE, !.deps = FALSE]
      [] i = 30 -> [h EXCEPT !.project.dbpkg = FALSE, !.schema = FALSE]
      [] i = 31 -> [h EXCEPT !.conf = ConfMissing]
      [] i = 32 -> [h EXCEPT !.conf = ConfNoKey]
      [] i = 33 -> [h EXCEPT !.conf = ConfEmptyValue]
      [] i = 34 -> [h EXCEPT !.conf = ConfEmptyQuoted]
      [] i = 35 -> [h EXCEPT !.conf = ConfDevelopment]
      [] i = 36 -> [h EXCEPT !.conf = ConfQuotedUpper]
      [] i = 37 -> [h EXCEPT !.conf = ConfStaging]
      [] i = 38 -> [h EXCEPT !.conf = ConfTwoKeys]
      [] i = 39 -> [h EXCEPT !.node = "unparsable"]
      [] i = 40 -> [h EXCEPT !.conf = ConfDevelopment, !.certbot = FALSE]
      [] OTHER  -> h

RECURSIVE DeviateAll(_, _)
DeviateAll(D, h) ==
    IF D = {} THEN h
    ELSE LET i == CHOOSE k \in D : \A j \in D : k <= j
         IN DeviateAll(D \ {i}, Deviate(i, h))

RECURSIVE DeviationSets(_)
\* the sets of at most n deviations
DeviationSets(n) ==
    IF n = 0 THEN {{}}
    ELSE LET smaller == DeviationSets(n - 1)
         IN smaller \cup { X \cup {i} : X \in smaller, i \in DeviationIds }

Hosts == { DeviateAll(D, ConvergedHost) : D \in DeviationSets(MaxDeviations) }

\* the password database consulted by pwd.getpwnam
KnownUsers(h) == {"root", "alice"} \cup (IF h.deployUser THEN {"deploy"} ELSE {})

\* a resolution that prefers USER to SUDO_USER
RealUser_userFirst(h) == IF h.user # "" THEN h.user ELSE h.sudo_user

\* os.environ.get('SUDO_USER') or os.environ.get('USER')
RealUser(h) == IF h.sudo_user # "" THEN h.sudo_user ELSE h.user

----------------------------------------------------------------------------
(* main(): the step list, the step loop and the summary                     *)

\* a step list with setup_database_permissions ahead of setup_postgresql_databases
Steps_permissionsFirst ==
    << "check_ubuntu_version", "check_nvm_installed", "check_nvm_node_version",
       "install_system_packages", "install_nodejs", "install_npm_global_packages",
       "install_postgresql", "install_timescaledb", "setup_database_permissions",
       "setup_postgresql_databases", "install_python_packages", "install_nginx",
       "install_certbot", "create_deploy_user", "create_directory_structure",
       "install_npm_dependencies", "run_database_migrations" >>

Steps ==
    << "check_ubuntu_version", "check_nvm_installed", "check_nvm_node_version",
       "install_system_packages", "install_nodejs", "install_npm_global_packages",
       "install_postgresql", "install_timescaledb", "setup_postgresql_databases",
       "setup_database_permissions", "install_python_packages", "install_nginx",
       "install_certbot", "create_deploy_user", "create_directory_structure",
       "install_npm_dependencies", "run_database_migrations" >>

StepNames == { Steps[i] : i \in 1..Len(Steps) }

\* the steps that start with a probe of their goal
ProbedSteps ==
    { "install_nodejs", "install_npm_global_packages", "install_postgresql",
      "install_timescaledb", "install_python_packages", "install_nginx",
      "install_certbot", "create_deploy_user" }

IndexOf(name) == CHOOSE i \in 1..Len(Steps) : Steps[i] = name

NoSummary == [printed |-> FALSE, failed |-> <<>>, warnings |-> <<>>, complete |-> FALSE]

\* what the child process of a run_command call does
Child(kind, returncode, stdout, stderr) ==
    [kind |-> kind, returncode |-> returncode, stdout |-> stdout, stderr |-> stderr]

\* run_command has not been called
NoCall == [child |-> Child("none", 0, "", ""), check |-> FALSE]
NoResult == [raised |-> "none", returncode |-> NoExit, stdout |-> "", stderr |-> ""]

\* no run_command call is being observed
NoCalls ==
    /\ rc_call = NoCall
    /\ rc_result = NoResult
    /\ rc_calls = 0

\* a configuration file that does not exist
NoFile == [exists |-> FALSE, lines |-> <<>>]

\* /tmp holds neither the summary file nor its temporary file
EmptyTmp == [tmp |-> 0, sum |-> 0, inodes |-> <<>>]

\* the monitor has not read the summary path
Unread == [state |-> "unread", inode |-> 0]

\* no test runner has been started
NoRunner ==
    /\ t_env = [user |-> NoFile, etc |-> NoFile, denied |-> {}, pkgjson |-> FALSE]
    /\ t_proc = <<>>
    /\ fs = EmptyTmp
    /\ t_versions = <<>>
    /\ mon_seen = Unread

\* the demo-injection wrapper has not been started
NoDemo ==
    demo = [pc |-> "idle", node_env |-> "", ts_exists |-> FALSE, argv |-> <<>>,
            cmd |-> <<>>, started |-> FALSE, child |-> "none",
            exit_code |-> NoExit]

\* SetupContext() and the per-run bookkeeping of a fresh process
FreshRun ==
    /\ pc = "start"
    /\ idx = 1
    /\ exitCode = NoExit
    /\ failed_steps = <<>>
    /\ warnings = <<>>
    /\ outcome = [s \in StepNames |-> "NotRun"]
    /\ mutated = [s \in StepNames |-> {}]
    /\ raised = [s \in StepNames |-> "none"]
    /\ printedWarn = {}
    /\ summary = NoSummary

Init ==
    /\ FreshRun
    /\ host \in Hosts
    /\ run = 1
    /\ prevExit = NoExit
    /\ prevRemediated = {}
    /\ NoCalls
    /\ NoRunner
    /\ NoDemo

(* What one call of a step function does: how it ends (kind), the host it  *)
(* leaves, the mutating commands it executed, the warnings it appended,    *)
(* the failed non-fatal actions it printed a warning for, the status it    *)
(* reported and whether an exception was raised inside it.                 *)
Return(h, cmds, warns, pw, out, exc) ==
    [kind |-> "return", host |-> h, cmds |-> cmds, warns |-> warns,
     pw |-> pw, out |-> out, exc |-> exc]

\* print_error(...); sys.exit(1) inside a step
SysExit(h, cmds, warns, pw, exc) ==
    [kind |-> "exit", host |-> h, cmds |-> cmds, warns |-> warns,
     pw |-> pw, out |-> "Fatal", exc |-> exc]

\* an exception that leaves the step function
Raise(h, cmds, warns, pw) ==
    [kind |-> "raise", host |-> h, cmds |-> cmds, warns |-> warns,
     pw |-> pw, out |-> "Raised", exc |-> "propagated"]

\* a failed non-fatal action reported with print_warning
Event(action, target) == [action |-> action, target |-> target]

\* a step loop in which a step's warnings replace the list instead of extending it
RunStep_warningsReplaced(name, r) ==
    /\ pc = "steps"
    /\ Steps[idx] = name
    /\ Cardinality(printedWarn \cup r.pw) <= MaxFaults
    /\ host' = r.host
    /\ outcome' = [outcome EXCEPT ![name] = r.out]
    /\ mutated' = [mutated EXCEPT ![name] = r.cmds]
    /\ raised' = [raised EXCEPT ![name] = r.exc]
    /\ warnings' = r.warns
    /\ printedWarn' = printedWarn \cup r.pw
    /\ IF r.kind = "return"
       THEN /\ idx' = idx + 1
            /\ pc' = IF idx = Len(Steps) THEN "summary" ELSE "steps"
            /\ UNCHANGED <<failed_steps, exitCode>>
       ELSE IF r.kind = "exit"
       THEN /\ pc' = "exited"
            /\ exitCode' = 1
            /\ UNCHANGED <<idx, failed_steps>>
       ELSE /\ failed_steps' = Append(failed_steps, name)
            /\ pc' = "exited"
            /\ exitCode' = 1
            /\ UNCHANGED idx
    /\ UNCHANGED <<summary, run, prevExit, prevRemediated, otherVars>>

\* a step loop that passes over the step after each step that returns
RunStep_skipsNext(name, r) ==
    /\ pc = "steps"
    /\ Steps[idx] = name
    /\ Cardinality(printedWarn \cup r.pw) <= MaxFaults
    /\ host' = r.host
    /\ outcome' = [outcome EXCEPT ![name] = r.out]
    /\ mutated' = [mutated EXCEPT ![name] = r.cmds]
    /\ raised' = [raised EXCEPT ![name] = r.exc]
    /\ warnings' = warnings \o r.warns
    /\ printedWarn' = printedWarn \cup r.pw
    /\ IF r.kind = "return"
       THEN /\ idx' = IF idx < Len(Steps) THEN idx + 2 ELSE idx + 1
            /\ pc' = IF idx >= Len(Steps) - 1 THEN "summary" ELSE "steps"
            /\ UNCHANGED <<failed_steps, exitCode>>
       ELSE IF r.kind = "exit"
       THEN /\ pc' = "exited"
            /\ exitCode' = 1
            /\ UNCHANGED <<idx, failed_steps>>
       ELSE /\ failed_steps' = Append(failed_steps, name)
            /\ pc' = "exited"
            /\ exitCode' = 1
            /\ UNCHANGED idx
    /\ UNCHANGED <<summary, run, prevExit, prevRemediated, otherVars>>

\* a step loop in which sys.exit(1) inside a step does not end the process
RunStep_exitContinues(name, r) ==
    /\ pc = "steps"
    /\ Steps[idx] = name
    /\ Cardinality(printedWarn \cup r.pw) <= MaxFaults
    /\ host' = r.host
    /\ outcome' = [outcome EXCEPT ![name] = r.out]
    /\ mutated' = [mutated EXCEPT ![name] = r.cmds]
    /\ raised' = [raised EXCEPT ![name] = r.exc]
    /\ warnings' = warnings \o r.warns
    /\ printedWarn' = printedWarn \cup r.pw
    /\ IF r.kind \in {"return", "exit"}
       THEN /\ idx' = idx + 1
            /\ pc' = IF idx = Len(Steps) THEN "summary" ELSE "steps"
            /\ UNCHANGED <<failed_steps, exitCode>>
       ELSE /\ failed_steps' = Append(failed_steps, name)
            /\ pc' = "exited"
            /\ exitCode' = 1
            /\ UNCHANGED idx
    /\ UNCHANGED <<summary, run, prevExit, prevRemediated, otherVars>>

\* a step loop whose exception handler records the step but lacks sys.exit(1)
RunStep_raiseContinues(name, r) ==
    /\ pc = "steps"
    /\ Steps[idx] = name
    /\ Cardinality(printedWarn \cup r.pw) <= MaxFaults
    /\ host' = r.host
    /\ outcome' = [outcome EXCEPT ![name] = r.out]
    /\ mutated' = [mutated EXCEPT ![name] = r.cmds]
    /\ raised' = [raised EXCEPT ![name] = r.exc]
    /\ warnings' = warnings \o r.warns
    /\ printedWarn' = printedWarn \cup r.pw
    /\ IF r.kind = "exit"
       THEN /\ pc' = "exited"
            /\ exitCode' = 1
            /\ UNCHANGED <<idx, failed_steps>>
       ELSE /\ idx' = idx + 1
            /\ pc' = IF idx = Len(Steps) THEN "summary" ELSE "steps"
            /\ failed_steps' = IF r.kind = "raise"
                               THEN Append(failed_steps, name) ELSE failed_steps
            /\ UNCHANGED exitCode
    /\ UNCHANGED <<summary, run, prevExit, prevRemediated, otherVars>>

\* the body of `for step in steps: try: step(context) except Exception ...`
RunStep(name, r) ==
    /\ pc = "steps"
    /\ Steps[idx] = name
    /\ Cardinality(printedWarn \cup r.pw) <= MaxFaults
    /\ host' = r.host
    /\ outcome' = [outcome EXCEPT ![name] = r.out]
    /\ mutated' = [mutated EXCEPT ![name] = r.cmds]
    /\ raised' = [raised EXCEPT ![name] = r.exc]
    /\ warnings' = warnings \o r.warns
    /\ printedWarn' = printedWarn \cup r.pw
    /\ IF r.kind = "return"
       THEN /\ idx' = idx + 1
            /\ pc' = IF idx = Len(Steps) THEN "summary" ELSE "steps"
            /\ UNCHANGED <<failed_steps, exitCode>>
       ELSE IF r.kind = "exit"
       THEN /\ pc' = "exited"
            /\ exitCode' = 1
            /\ UNCHANGED <<idx, failed_steps>>
       ELSE /\ failed_steps' = Append(failed_steps, name)
            /\ pc' = "exited"
            /\ exitCode' = 1
            /\ UNCHANGED idx
    /\ UNCHANGED <<summary, run, prevExit, prevRemediated, otherVars>>

\* main() up to the step list: the root check
MainStart ==
    /\ pc = "start"
    /\ IF host.euid # 0
       THEN /\ pc' = "exited"
            /\ exitCode' = 1
       ELSE /\ pc' = "steps"
            /\ UNCHANGED exitCode
    /\ UNCHANGED <<idx, failed_steps, warnings, host, outcome, mutated, raised,
                   printedWarn, summary, run, prevExit, prevRemediated, otherVars>>

\* a summary that turns accumulated warnings into a failing exit status
MainSummary_warningsFail ==
    /\ pc = "summary"
    /\ IF failed_steps # <<>>
       THEN /\ summary' = [printed |-> TRUE, failed |-> failed_steps,
                           warnings |-> <<>>, complete |-> FALSE]
            /\ exitCode' = 1
       ELSE /\ summary' = [printed |-> TRUE, failed |-> <<>>,
                           warnings |-> warnings, complete |-> TRUE]
            /\ exitCode' = IF warnings # <<>> THEN 1 ELSE 0
    /\ pc' = "exited"
    /\ UNCHANGED <<idx, failed_steps, warnings, host, outcome, mutated, raised,
                   printedWarn, run, prevExit, prevRemediated, otherVars>>

\* main() after the loop: the summary block and the end of the process
MainSummary ==
    /\ pc = "summary"
    /\ IF failed_steps # <<>>
       THEN /\ summary' = [printed |-> TRUE, failed |-> failed_steps,
                           warnings |-> <<>>, complete |-> FALSE]
            /\ exitCode' = 1
       ELSE /\ summary' = [printed |-> TRUE, failed |-> <<>>,
                           warnings |-> warnings, complete |-> TRUE]
            /\ exitCode' = 0
    /\ pc' = "exited"
    /\ UNCHANGED <<idx, failed_steps, warnings, host, outcome, mutated, raised,
                   printedWarn, run, prevExit, prevRemediated, otherVars>>

\* the operator runs the script again on the host the previous run left
Rerun ==
    /\ pc = "exited"
    /\ run < MaxRuns
    /\ run' = run + 1
    /\ prevExit' = exitCode
    /\ prevRemediated' = { s \in ProbedSteps : outcome[s] = "Remediated" }
    /\ pc' = "start"
    /\ idx' = 1
    /\ exitCode' = NoExit
    /\ failed_steps' = <<>>
    /\ warnings' = <<>>
    /\ outcome' = [s \in StepNames |-> "NotRun"]
    /\ mutated' = [s \in StepNames |-> {}]
    /\ raised' = [s \in StepNames |-> "none"]
    /\ printedWarn' = {}
    /\ summary' = NoSummary
    /\ UNCHANGED <<host, otherVars>>

----------------------------------------------------------------------------
(* The steps.  Each operator gives the set of things its step function can *)
(* do on host h; the choice inside the set is the environment's.           *)

\* float(version) of VERSION_ID, times 100; 0 - 1 when float() raises ValueError
VersionFloat100(version) ==
    CASE version = "24.04" -> 2404
      [] version = "22.04" -> 2204
      [] version = "25.04" -> 2504
      [] OTHER -> 0 - 1

\* a check_ubuntu_version that accepts any Ubuntu release
check_ubuntu_version_anyRelease(h) ==
    IF ~h.osrel.exists
    THEN { SysExit(h, {}, <<>>, {}, "handled") }
    ELSE IF h.osrel.id # "ubuntu"
    THEN { SysExit(h, {}, <<>>, {}, "none") }
    ELSE { Return(h, {}, <<>>, {}, "Checked", "none") }

check_ubuntu_version(h) ==
    IF ~h.osrel.exists
    THEN \* open() raises; `except Exception` of the step catches it
         { SysExit(h, {}, <<>>, {}, "handled") }
    ELSE IF h.osrel.id # "ubuntu"
    THEN { SysExit(h, {}, <<>>, {}, "none") }
    ELSE IF VersionFloat100(h.osrel.version) < 0
    THEN { SysExit(h, {}, <<>>, {}, "none") }
    ELSE IF VersionFloat100(h.osrel.version) < 2404
    THEN { SysExit(h, {}, <<>>, {}, "none") }
    ELSE { Return(h, {}, <<>>, {}, "Checked", "none") }

check_nvm_installed(h) ==
    IF RealUser(h) = ""
    THEN { SysExit(h, {}, <<>>, {}, "none") }
    ELSE IF RealUser(h) \notin KnownUsers(h)
    THEN { SysExit(h, {}, <<>>, {}, "none") }
    ELSE IF h.nvm = "nodir"
    THEN { SysExit(h, {}, <<>>, {}, "none") }
    ELSE { Return(h, {}, <<>>, {}, "Checked", "none") }

check_nvm_node_version(h) ==
    IF RealUser(h) = ""
    THEN { SysExit(h, {}, <<>>, {}, "none") }
    ELSE IF RealUser(h) \notin KnownUsers(h)
    THEN { SysExit(h, {}, <<>>, {}, "none") }
    ELSE IF h.nvm = "nodir"
    THEN { SysExit(h, {}, <<>>, {}, "none") }
    ELSE IF h.nvm # "v22"
    THEN { SysExit(h, {}, <<>>, {}, "none") }
    ELSE { Return(h, {}, <<>>, {}, "Checked", "none") }

\* the candidates `apt install` is tried on, in list order, when the
\* installs of the candidates in `ok` succeed: up to the first success
AudioAttempts(ok) ==
    IF AudioPackages[1] \in ok
    THEN {AudioPackages[1]}
    ELSE {AudioPackages[1], AudioPackages[2]}

\* the candidate the install loop ends with, {} if every install failed
AudioInstalledBy(ok) ==
    IF AudioPackages[1] \in ok THEN {AudioPackages[1]}
    ELSE IF AudioPackages[2] \in ok THEN {AudioPackages[2]}
    ELSE {}

AptInstall(pkgs) == { [cmd |-> "apt install", arg |-> p] : p \in pkgs }
Cmd(c) == { [cmd |-> c, arg |-> ""] }

install_system_packages(h) ==
    LET probed == h.audio # {}
    IN UNION { 
        LET gained == IF probed THEN {} ELSE AudioInstalledBy(ok)
            tried == IF probed THEN {} ELSE AptInstall(AudioAttempts(ok))
            h1 == [h EXCEPT !.audio = h.audio \cup gained]
            audio_installed == h1.audio # {}
        IN IF h.missing = {} /\ audio_installed
           THEN { Return(h1, tried, <<>>, {}, "Skipped", "none") }
           ELSE { SysExit(h1, tried \cup Cmd("apt update"), <<>>, {}, "none"),
                  SysExit(h1, tried \cup Cmd("apt update") \cup Cmd("apt install missing"),
                          <<>>, {}, "none"),
                  Return([h1 EXCEPT !.missing = {}],
                         tried \cup Cmd("apt update") \cup Cmd("apt install missing"),
                         <<>>, {}, "Remediated", "none") }
        : ok \in (IF probed THEN {{}} ELSE SUBSET {AudioPackages[1], AudioPackages[2]}) }

\* an install_nodejs that replaces a wrong version instead of refusing it
install_nodejs_autoUpgrade(h) ==
    IF h.node = "v22"
    THEN { Return(h, {}, <<>>, {}, "Skipped", "none") }
    ELSE { Return([h EXCEPT !.node = "v22"],
                  Cmd("nodesource setup") \cup AptInstall({"nodejs"}),
                  <<>>, {}, "Remediated", "none") }

install_nodejs(h) ==
    IF h.node = "v22"
    THEN { Return(h, {}, <<>>, {}, "Skipped", "none") }
    ELSE IF h.node \in {"v20", "unparsable"}
    THEN { SysExit(h, {}, <<>>, {}, "none") }
    ELSE { \* curl of the NodeSource setup script fails
           SysExit(h, {}, <<>>, {}, "none"),
           \* subprocess.Popen(['bash', '-']) raises OSError
           Raise(h, {}, <<>>, {}),
           \* the setup script returns non-zero
           SysExit(h, Cmd("nodesource setup"), <<>>, {}, "none"),
           \* apt install nodejs fails
           SysExit(h, Cmd("nodesource setup") \cup AptInstall({"nodejs"}),
                   <<>>, {}, "none") }
         \cup
         { Return([h EXCEPT !.node = IF established THEN "v22" ELSE h.node],
                  Cmd("nodesource setup") \cup AptInstall({"nodejs"}),
                  <<>>, {}, "Remediated", "none") : established \in BOOLEAN }

\* PM2 installed without looking at the probe
install_npm_global_packages_noProbe(h) ==
    { SysExit(h, Cmd("npm install -g pm2"), <<>>, {}, "none") }
    \cup
    { Return([h EXCEPT !.pm2 = established], Cmd("npm install -g pm2"),
             <<>>, {}, "Remediated", "none") : established \in BOOLEAN }

install_npm_global_packages(h) ==
    IF h.pm2
    THEN { Return(h, {}, <<>>, {}, "Skipped", "none") }
    ELSE { SysExit(h, Cmd("npm install -g pm2"), <<>>, {}, "none") }
         \cup
         { Return([h EXCEPT !.pm2 = established], Cmd("npm install -g pm2"),
                  <<>>, {}, "Remediated", "none") : established \in BOOLEAN }

PgRepoCmds == Cmd("makedirs /etc/apt/keyrings")
              \cup Cmd("write postgresql.asc") \cup Cmd("write postgresql.list")
              \cup Cmd("apt update")

install_postgresql(h) ==
    IF h.psql = "17"
    THEN { Return(h, {}, <<>>, {}, "Skipped", "none") }
    ELSE IF h.psql \in {"16", "unparsable"}
    THEN { SysExit(h, {}, <<>>, {}, "none") }
    ELSE { \* os.makedirs raises OSError
           Raise(h, Cmd("makedirs /etc/apt/keyrings"), <<>>, {}),
           \* curl of the GPG key fails
           SysExit(h, Cmd("makedirs /etc/apt/keyrings"), <<>>, {}, "none"),
           \* apt install postgresql-17 fails
           SysExit(h, PgRepoCmds \cup AptInstall({"postgresql-17"}), <<>>, {}, "none") }
         \cup
         { Return([h EXCEPT !.psql = IF established THEN "17" ELSE h.psql],
                  PgRepoCmds \cup AptInstall({"postgresql-17"}),
                  <<>>, {}, "Remediated", "none") : established \in BOOLEAN }

TsRepoCmds == Cmd("makedirs /etc/apt/keyrings")
              \cup Cmd("write timescaledb.asc") \cup Cmd("write timescaledb.list")
              \cup Cmd("apt update")

TuneWarning == "TimescaleDB tune failed - may need manual configuration"

\* an install_timescaledb that purges PostgreSQL when its own install fails
install_timescaledb_undoesPostgresql(h) ==
    IF h.psql # "absent" /\ h.tsdb
    THEN { Return(h, {}, <<>>, {}, "Skipped", "none") }
    ELSE { SysExit([h EXCEPT !.psql = "absent"],
                   TsRepoCmds \cup AptInstall({"timescaledb-2-postgresql-17"}),
                   <<>>, {}, "none") }

install_timescaledb(h) ==
    IF h.psql # "absent" /\ h.tsdb
    THEN { Return(h, {}, <<>>, {}, "Skipped", "none") }
    ELSE { Raise(h, Cmd("makedirs /etc/apt/keyrings"), <<>>, {}),
           SysExit(h, Cmd("makedirs /etc/apt/keyrings"), <<>>, {}, "none"),
           SysExit(h, TsRepoCmds \cup AptInstall({"timescaledb-2-postgresql-17"}),
                   <<>>, {}, "none") }
         \cup
         { LET cmds == TsRepoCmds \cup AptInstall({"timescaledb-2-postgresql-17"})
                        \cup Cmd("timescaledb-tune") \cup Cmd("systemctl restart postgresql")
               h1 == [h EXCEPT !.tsdb = established]
           IN IF tune_ok
              THEN Return(h1, cmds, <<>>, {}, "Remediated", "none")
              ELSE Return(h1, cmds, <<TuneWarning>>, {Event("timescaledb-tune", "")},
                          "Remediated", "none")
           : established \in BOOLEAN, tune_ok \in BOOLEAN }

\* the element set of a sequence
Range(seq) == { seq[i] : i \in 1..Len(seq) }

ExtensionWarning(db) ==
    CASE db = "suiftly_prod" -> "TimescaleDB extension not enabled on suiftly_prod"
      [] db = "suiftly_dev"  -> "TimescaleDB extension not enabled on suiftly_dev"
      [] db = "suiftly_test" -> "TimescaleDB extension not enabled on suiftly_test"

RECURSIVE CreateDatabases_noExistsCheck(_, _, _, _)
\* the loop without the `db in stdout` check: createdb runs for every database
CreateDatabases_noExistsCheck(databases, acc, createFail, extFail) ==
    IF databases = <<>> \/ acc.failed THEN acc
    ELSE LET db == databases[1]
         IN IF db \in createFail
            THEN [acc EXCEPT !.failed = TRUE,
                             !.cmds = @ \cup {[cmd |-> "createdb", arg |-> db]}]
            ELSE LET created == [acc EXCEPT
                        !.host.dbs = @ \cup {db},
                        !.cmds = @ \cup {[cmd |-> "createdb", arg |-> db]}
                                   \cup {[cmd |-> "CREATE EXTENSION", arg |-> db]}]
                     extended ==
                        IF db \in extFail
                        THEN [created EXCEPT
                                !.warns = Append(@, ExtensionWarning(db)),
                                !.pw = @ \cup {Event("CREATE EXTENSION", db)}]
                        ELSE [created EXCEPT !.host.ext = @ \cup {db}]
                 IN CreateDatabases_noExistsCheck(Tail(databases), extended,
                                                  createFail, extFail)

RECURSIVE CreateDatabases(_, _, _, _)
\* the loop `for db in databases` of setup_postgresql_databases, from the
\* accumulated effect acc; createdb fails on the databases of createFail and
\* CREATE EXTENSION on those of extFail
CreateDatabases(databases, acc, createFail, extFail) ==
    IF databases = <<>> \/ acc.failed THEN acc
    ELSE LET db == databases[1]
             exists == db \in acc.host.dbs
         IN IF ~exists /\ db \in createFail
            THEN [acc EXCEPT !.failed = TRUE,
                             !.cmds = @ \cup {[cmd |-> "createdb", arg |-> db]}]
            ELSE LET created == [acc EXCEPT
                        !.host.dbs = @ \cup {db},
                        !.cmds = @ \cup (IF exists THEN {}
                                         ELSE {[cmd |-> "createdb", arg |-> db]})
                                   \cup {[cmd |-> "CREATE EXTENSION", arg |-> db]}]
                     extended ==
                        IF db \in extFail
                        THEN [created EXCEPT
                                !.warns = Append(@, ExtensionWarning(db)),
                                !.pw = @ \cup {Event("CREATE EXTENSION", db)}]
                        ELSE [created EXCEPT !.host.ext = @ \cup {db}]
                 IN CreateDatabases(Tail(databases), extended, createFail, extFail)

\* the step without the `if not deployment_type` check
setup_postgresql_databases_noModeCheck(h) ==
    IF ~h.conf.exists
    THEN { SysExit(h, {}, <<>>, {}, "none") }
    ELSE LET deployment_type == ReadDeploymentType(h.conf.lines)
             databases == DatabasesFor(deployment_type)
         IN UNION {
               LET acc == CreateDatabases(databases,
                             [host |-> h, cmds |-> {}, warns |-> <<>>,
                              pw |-> {}, failed |-> FALSE],
                             createFail, extFail)
                   grants == { [cmd |-> "GRANT ON DATABASE", arg |-> db] :
                                 db \in Range(databases) }
               IN IF acc.failed
                  THEN { SysExit(acc.host, acc.cmds, acc.warns, acc.pw, "none") }
                  ELSE IF acc.host.role
                  THEN { Return(acc.host, acc.cmds \cup grants, acc.warns, acc.pw,
                                "Remediated", "none") }
                  ELSE { SysExit(acc.host, acc.cmds \cup Cmd("CREATE USER deploy"),
                                 acc.warns, acc.pw, "none"),
                         Return([acc.host EXCEPT !.role = TRUE],
                                acc.cmds \cup Cmd("CREATE USER deploy") \cup grants,
                                acc.warns, acc.pw, "Remediated", "none") }
               : createFail \in SUBSET (Range(databases) \ h.dbs),
                 extFail \in { X \in SUBSET Range(databases) :
                                 Cardinality(X) <= MaxFaults } }

setup_postgresql_databases(h) ==
    IF ~h.conf.exists
    THEN { SysExit(h, {}, <<>>, {}, "none") }
    ELSE LET deployment_type == ReadDeploymentType(h.conf.lines)
             databases == DatabasesFor(deployment_type)
         IN IF Falsy(deployment_type)
            THEN { SysExit(h, {}, <<>>, {}, "none") }
            ELSE UNION {
                   LET acc == CreateDatabases(databases,
                                 [host |-> h, cmds |-> {}, warns |-> <<>>,
                                  pw |-> {}, failed |-> FALSE],
                                 createFail, extFail)
                       grants == { [cmd |-> "GRANT ON DATABASE", arg |-> db] :
                                     db \in Range(databases) }
                   IN IF acc.failed
                      THEN { SysExit(acc.host, acc.cmds, acc.warns, acc.pw, "none") }
                      ELSE IF acc.host.role
                      THEN { Return(acc.host, acc.cmds \cup grants, acc.warns, acc.pw,
                                    "Remediated", "none") }
                      ELSE { SysExit(acc.host, acc.cmds \cup Cmd("CREATE USER deploy"),
                                     acc.warns, acc.pw, "none"),
                             Return([acc.host EXCEPT !.role = TRUE],
                                    acc.cmds \cup Cmd("CREATE USER deploy") \cup grants,
                                    acc.warns, acc.pw, "Remediated", "none") }
                   : createFail \in SUBSET (Range(databases) \ h.dbs),
                     extFail \in { X \in SUBSET Range(databases) :
                                     Cardinality(X) <= MaxFaults } }

GrantKinds ==
    { "GRANT ALL ON SCHEMA public", "GRANT ALL ON ALL TABLES",
      "GRANT ALL ON ALL SEQUENCES", "ALTER DEFAULT PRIVILEGES ON TABLES",
      "ALTER DEFAULT PRIVILEGES ON SEQUENCES" }

setup_database_permissions(h) ==
    IF ~h.conf.exists
    THEN \* open() raises FileNotFoundError, caught as IOError by the step
         { SysExit(h, {}, <<>>, {}, "handled") }
    ELSE LET deployment_type == ReadDeploymentType(h.conf.lines)
             databases == DatabasesFor(deployment_type)
             commands == { [cmd |-> k, arg |-> db] :
                             k \in GrantKinds, db \in Range(databases) }
         IN { Return(h, commands, <<>>,
                     { Event(c.cmd, c.arg) : c \in failing }, "Remediated", "none")
              : failing \in { X \in SUBSET commands : Cardinality(X) <= MaxFaults } }

\* an install_python_packages that installs without looking at its probe
install_python_packages_alwaysInstall(h) ==
    { Return([h EXCEPT !.pymissing = {}],
             AptInstall({"python3-psycopg2", "python3-dotenv", "python3-click"}),
             <<>>, {}, "Remediated", "none") }

install_python_packages(h) ==
    IF h.pymissing = {}
    THEN { Return(h, {}, <<>>, {}, "Skipped", "none") }
    ELSE { SysExit(h, AptInstall(h.pymissing), <<>>, {}, "none") }
         \cup
         { Return([h EXCEPT !.pymissing = IF established THEN {} ELSE @],
                  AptInstall(h.pymissing), <<>>, {}, "Remediated", "none")
           : established \in BOOLEAN }

install_nginx(h) ==
    IF h.nginx
    THEN { Return(h, {}, <<>>, {}, "Skipped", "none") }
    ELSE LET core == AptInstall({"nginx-core"})
             full == core \cup AptInstall({"nginx"})
         IN { SysExit(h, core, <<>>, {}, "none") }
            \cup
            (IF h.ipv6
             THEN { SysExit(h, full, <<>>, {}, "none") }
                  \cup { Return([h EXCEPT !.nginx = established], full, <<>>, {},
                                "Remediated", "none") : established \in BOOLEAN }
             ELSE \* the default site is rewritten, or rewriting raises and the
                  \* step's own `except Exception` prints a warning
                  { SysExit(h, full \cup Cmd("write sites-available/default"),
                            <<>>, {}, "none"),
                    SysExit(h, full, <<>>, {Event("nginx ipv6 config", "")}, "handled") }
                  \cup { Return([h EXCEPT !.nginx = established],
                                full \cup Cmd("write sites-available/default"),
                                <<>>, {}, "Remediated", "none")
                         : established \in BOOLEAN }
                  \cup { Return([h EXCEPT !.nginx = established], full,
                                <<>>, {Event("nginx ipv6 config", "")},
                                "Remediated", "handled")
                         : established \in BOOLEAN })

\* an install_certbot that probes again after installing and reports a
\* warning when the probe is still unsatisfied
install_certbot_probesAgain(h) ==
    IF h.certbot
    THEN { Return(h, {}, <<>>, {}, "Skipped", "none") }
    ELSE { SysExit(h, AptInstall({"certbot"}), <<>>, {}, "none") }
         \cup
         { IF established
           THEN Return([h EXCEPT !.certbot = TRUE], AptInstall({"certbot"}),
                       <<>>, {}, "Remediated", "none")
           ELSE Return(h, AptInstall({"certbot"}), <<"certbot not verified">>,
                       {}, "Warned", "none")
           : established \in BOOLEAN }

install_certbot(h) ==
    IF h.certbot
    THEN { Return(h, {}, <<>>, {}, "Skipped", "none") }
    ELSE { SysExit(h, AptInstall({"certbot"}), <<>>, {}, "none") }
         \cup
         { Return([h EXCEPT !.certbot = established], AptInstall({"certbot"}),
                  <<>>, {}, "Remediated", "none") : established \in BOOLEAN }

create_deploy_user(h) ==
    IF h.deployUser
    THEN { Return(h, {}, <<>>, {}, "Skipped", "none") }
    ELSE { SysExit(h, Cmd("useradd deploy"), <<>>, {}, "none") }
         \cup
         { Return([h EXCEPT !.deployUser = established], Cmd("useradd deploy"),
                  <<>>, {}, "Remediated", "none") : established \in BOOLEAN }

OwnershipWarning == "Directory ownership may need manual adjustment"

create_directory_structure(h) ==
    LET made == [h EXCEPT !.dirs = TRUE]
    IN { \* os.makedirs raises: nothing in the step catches it
         Raise(h, Cmd("makedirs"), <<>>, {}) }
       \cup
       (IF ~h.deployUser
        THEN \* pwd.getpwnam('deploy') raises KeyError inside the try
             { Return(made, Cmd("makedirs"), <<OwnershipWarning>>,
                      {Event("chown", "")}, "Remediated", "handled") }
        ELSE { Return([made EXCEPT !.owner = "deploy"],
                      Cmd("makedirs") \cup Cmd("chown"), <<>>, {},
                      "Remediated", "none"),
               \* os.chown raises inside the try
               Return(made, Cmd("makedirs") \cup Cmd("chown"), <<OwnershipWarning>>,
                      {Event("chown", "")}, "Remediated", "handled") })

NpmInstallWarning == "npm install failed - run 'npm install' manually"

\* an install_npm_dependencies that records a warning when it has nothing to
\* install from
install_npm_dependencies_warnsWhenMissing(h) ==
    IF RealUser(h) = ""
    THEN { SysExit(h, {}, <<>>, {}, "none") }
    ELSE IF RealUser(h) \notin KnownUsers(h)
    THEN { SysExit(h, {}, <<>>, {}, "none") }
    ELSE IF ~h.project.dir \/ ~h.project.pkgjson
    THEN { Return(h, {}, <<NpmInstallWarning>>, {}, "Warned", "none") }
    ELSE { Return(h, Cmd("npm install"), <<NpmInstallWarning>>,
                  {Event("npm install", "")}, "Warned", "none"),
           Return([h EXCEPT !.deps = TRUE], Cmd("npm install"), <<>>, {},
                  "Remediated", "none") }

install_npm_dependencies(h) ==
    IF RealUser(h) = ""
    THEN { SysExit(h, {}, <<>>, {}, "none") }
    ELSE IF RealUser(h) \notin KnownUsers(h)
    THEN { SysExit(h, {}, <<>>, {}, "none") }
    ELSE IF ~h.project.dir
    THEN { Return(h, {}, <<>>, {}, "NoOp", "none") }
    ELSE IF ~h.project.pkgjson
    THEN { Return(h, {}, <<>>, {}, "NoOp", "none") }
    ELSE { Return(h, Cmd("npm install"), <<NpmInstallWarning>>,
                  {Event("npm install", "")}, "Warned", "none"),
           Return([h EXCEPT !.deps = TRUE], Cmd("npm install"), <<>>, {},
                  "Remediated", "none") }

MigrationWarning ==
    "Database migration failed - run 'npm run db:push' manually in packages/database"

run_database_migrations(h) ==
    IF RealUser(h) = ""
    THEN { SysExit(h, {}, <<>>, {}, "none") }
    ELSE IF RealUser(h) \notin KnownUsers(h)
    THEN { SysExit(h, {}, <<>>, {}, "none") }
    ELSE IF ~h.project.dir
    THEN { Return(h, {}, <<>>, {}, "NoOp", "none") }
    ELSE IF ~h.project.dbpkg
    THEN { Return(h, {}, <<>>, {}, "NoOp", "none") }
    ELSE { Return(h, Cmd("npm run db:push"), <<MigrationWarning>>,
                  {Event("npm run db:push", "")}, "Warned", "none"),
           Return([h EXCEPT !.schema = TRUE], Cmd("npm run db:push"), <<>>, {},
                  "Remediated", "none") }

----------------------------------------------------------------------------
(* One action per step of the list                                          *)

Step_check_ubuntu_version ==
    \E r \in check_ubuntu_version(host) : RunStep("check_ubuntu_version", r)
Step_check_nvm_installed ==
    \E r \in check_nvm_installed(host) : RunStep("check_nvm_installed", r)
Step_check_nvm_node_version ==
    \E r \in check_nvm_node_version(host) : RunStep("check_nvm_node_version", r)
Step_install_system_packages ==
    \E r \in install_system_packages(host) : RunStep("install_system_packages", r)
Step_install_nodejs ==
    \E r \in install_nodejs(host) : RunStep("install_nodejs", r)
Step_install_npm_global_packages ==
    \E r \in install_npm_global_packages(host) :
        RunStep("install_npm_global_packages", r)
Step_install_postgresql ==
    \E r \in install_postgresql(host) : RunStep("install_postgresql", r)
Step_install_timescaledb ==
    \E r \in install_timescaledb(host) : RunStep("install_timescaledb", r)
Step_setup_postgresql_databases ==
    \E r \in setup_postgresql_databases(host) :
        RunStep("setup_postgresql_databases", r)
Step_setup_database_permissions ==
    \E r \in setup_database_permissions(host) :
        RunStep("setup_database_permissions", r)
Step_install_python_packages ==
    \E r \in install_python_packages(host) : RunStep("install_python_packages", r)
Step_install_nginx ==
    \E r \in install_nginx(host) : RunStep("install_nginx", r)
Step_install_certbot ==
    \E r \in install_certbot(host) : RunStep("install_certbot", r)
Step_create_deploy_user ==
    \E r \in create_deploy_user(host) : RunStep("create_deploy_user", r)
Step_create_directory_structure ==
    \E r \in create_directory_structure(host) :
        RunStep("create_directory_structure", r)
Step_install_npm_dependencies ==
    \E r \in install_npm_dependencies(host) : RunStep("install_npm_dependencies", r)
Step_run_database_migrations ==
    \E r \in run_database_migrations(host) : RunStep("run_database_migrations", r)

Next ==
    \/ MainStart
    \/ Step_check_ubuntu_version
    \/ Step_check_nvm_installed
    \/ Step_check_nvm_node_version
    \/ Step_install_system_packages
    \/ Step_install_nodejs
    \/ Step_install_npm_global_packages
    \/ Step_install_postgresql
    \/ Step_install_timescaledb
    \/ Step_setup_postgresql_databases
    \/ Step_setup_database_permissions
    \/ Step_install_python_packages
    \/ Step_install_nginx
    \/ Step_install_certbot
    \/ Step_create_deploy_user
    \/ Step_create_directory_structure
    \/ Step_install_npm_dependencies
    \/ Step_run_database_migrations
    \/ MainSummary
    \/ Rerun

Spec == Init /\ [][Next]_vars

-----------------------------------------------------------------------------
(* run_command on its own: every kind of child, with and without check     *)

\* def run_command(cmd, check=True): the returned tuple, or the exception
\* that leaves the function
run_command(child, check) ==
    IF child.kind = "exited"
    THEN IF check /\ child.returncode # 0
         THEN \* except subprocess.CalledProcessError as e
              [raised |-> "none", returncode |-> child.returncode,
               stdout |-> child.stdout, stderr |-> child.stderr]
         ELSE \* return (result.returncode, result.stdout, result.stderr)
              [raised |-> "none", returncode |-> child.returncode,
               stdout |-> child.stdout, stderr |-> child.stderr]
    ELSE IF child.kind = "not_found"
    THEN \* except FileNotFoundError
         [raised |-> "none", returncode |-> 127,
          stdout |-> "", stderr |-> "Command not found"]
    ELSE \* PermissionError (the file exists but cannot be executed) is an
         \* OSError that neither except clause names
         [raised |-> "PermissionError", returncode |-> NoExit,
          stdout |-> "", stderr |-> ""]

\* the children subprocess.run can meet
Children ==
    {Child("exited", rc, out, err) :
        rc \in (0..MaxExitCode) \cup {127}, out \in {"", "out"}, err \in {"", "err"}}
    \cup {Child("not_found", 0, "", ""), Child("not_executable", 0, "", "")}

CallRunCommand ==
    /\ rc_calls < MaxCalls
    /\ \E child \in Children, check \in BOOLEAN :
          /\ rc_call' = [child |-> child, check |-> check]
          /\ rc_result' = run_command(child, check)
    /\ rc_calls' = rc_calls + 1
    /\ UNCHANGED <<setupVars, runnerVars, demoVars>>

InitCmd ==
    /\ FreshRun
    /\ host = ConvergedHost
    /\ run = 1
    /\ prevExit = NoExit
    /\ prevRemediated = {}
    /\ NoCalls
    /\ NoRunner
    /\ NoDemo

NextCmd == CallRunCommand

SpecCmd == InitCmd /\ [][NextCmd]_vars

TypeOK ==
    /\ pc \in {"start", "steps", "summary", "exited"}
    /\ idx \in 1..(Len(Steps) + 1)
    /\ exitCode \in {NoExit, 0, 1}
    /\ run \in 1..MaxRuns

----------------------------------------------------------------------------
(* scripts/run-all-tests.py: the test runner, the summary file it writes   *)
(* with write-temp-then-rename, and a monitor that reads that file         *)

ENVIRONMENT_EQ == <<"E","N","V","I","R","O","N","M","E","N","T","=">>

\* sample contents of ~/mhaxbe/system.conf
UserProduction == [exists |-> TRUE,
    lines |-> << ENVIRONMENT_EQ \o production >>]
UserDevelopment == [exists |-> TRUE,
    lines |-> << <<"#"," ","c">>, <<>>, ENVIRONMENT_EQ \o development >>]
UserQuotedUpper == [exists |-> TRUE,
    lines |-> << ENVIRONMENT_EQ \o <<"\"">> \o Production \o <<"\"">> >>]
UserStagingThenProduction == [exists |-> TRUE,
    lines |-> << ENVIRONMENT_EQ \o staging, ENVIRONMENT_EQ \o production >>]
UserNoKey == [exists |-> TRUE, lines |-> << <<"O","=","1">> >>]

UserConfigs ==
    {NoFile, UserProduction, UserDevelopment, UserQuotedUpper,
     UserStagingThenProduction, UserNoKey}

\* sample contents of /etc/mhaxbe/system.conf
EtcConfigs == {NoFile, ConfProduction, ConfDevelopment, ConfTwoKeys}

RECURSIVE ScanUserConfig(_)
\* the loop over ~/mhaxbe/system.conf: "production" or "development" when
\* an ENVIRONMENT= line with that value returns, "undecided" at the end
ScanUserConfig(lines) ==
    IF lines = <<>> THEN "undecided"
    ELSE LET line == Strip(lines[1], Whitespace)
         IN IF line = <<>> \/ StartsWith(line, <<"#">>)
            THEN ScanUserConfig(Tail(lines))
            ELSE IF StartsWith(line, ENVIRONMENT_EQ)
            THEN LET value == Lower(Strip(AfterFirstEq(line), Quotes))
                 IN IF value = production THEN "production"
                    ELSE IF value = development THEN "development"
                    ELSE ScanUserConfig(Tail(lines))
            ELSE ScanUserConfig(Tail(lines))

RECURSIVE ScanEtcConfig(_)
\* the loop over /etc/mhaxbe/system.conf: TRUE when a DEPLOYMENT_TYPE= line
\* with value production returns
ScanEtcConfig(lines) ==
    IF lines = <<>> THEN FALSE
    ELSE LET line == Strip(lines[1], Whitespace)
         IN IF line = <<>> \/ StartsWith(line, <<"#">>)
            THEN ScanEtcConfig(Tail(lines))
            ELSE IF StartsWith(line, DEPLOYMENT_TYPE_EQ)
                    /\ Lower(Strip(AfterFirstEq(line), Quotes)) = production
            THEN TRUE
            ELSE ScanEtcConfig(Tail(lines))

\* an is_production_environment that asks the machine-level file first
is_production_environment_etcFirst(env) ==
    LET user == IF env.user.exists /\ "user" \notin env.denied
                THEN ScanUserConfig(env.user.lines)
                ELSE "undecided"
    IN IF env.etc.exists /\ "etc" \notin env.denied /\ ScanEtcConfig(env.etc.lines)
       THEN [is_prod |-> TRUE, reason |-> "DEPLOYMENT_TYPE=production"]
       ELSE IF user = "production"
       THEN [is_prod |-> TRUE, reason |-> "ENVIRONMENT=production"]
       ELSE IF user = "development"
       THEN [is_prod |-> FALSE, reason |-> "ENVIRONMENT=development"]
       ELSE [is_prod |-> FALSE, reason |-> "No production markers found"]

\* def is_production_environment(): (is_production, reason).  A file named
\* in env.denied exists but open() raises on it: the except clause prints a
\* warning and the function goes on
is_production_environment(env) ==
    LET user == IF env.user.exists /\ "user" \notin env.denied
                THEN ScanUserConfig(env.user.lines)
                ELSE "undecided"
    IN IF user = "production"
       THEN [is_prod |-> TRUE, reason |-> "ENVIRONMENT=production"]
       ELSE IF user = "development"
       THEN [is_prod |-> FALSE, reason |-> "ENVIRONMENT=development"]
       ELSE IF env.etc.exists /\ "etc" \notin env.denied /\ ScanEtcConfig(env.etc.lines)
       THEN [is_prod |-> TRUE, reason |-> "DEPLOYMENT_TYPE=production"]
       ELSE [is_prod |-> FALSE, reason |-> "No production markers found"]

\* the environments a runner can find: the two configuration files, those
\* of them that exist but cannot be opened, and whether package.json exists
RunnerEnvs ==
    { e \in [user : UserConfigs, etc : EtcConfigs,
             denied : SUBSET {"user", "etc"}, pkgjson : BOOLEAN] :
        /\ "user" \in e.denied => e.user.exists
        /\ "etc" \in e.denied => e.etc.exists }

\* phases = ["typescript-e2e"]
Phases == <<"typescript-e2e">>

\* def init_summary(phases)
init_summary(phases) ==
    [status |-> "running",
     current_phase |-> "None",
     phases |-> [i \in 1..Len(phases) |->
                   [name |-> phases[i], status |-> "pending", duration |-> "None"]],
     summary |-> [passed |-> 0, failed |-> 0, skipped |-> 0, total |-> Len(phases)],
     ended |-> "None",
     duration |-> "None"]

\* an update_phase that also counts the start of a phase, as skipped
update_phase_countsStart(doc, phase_name, status, duration) ==
    LET found == { i \in 1..Len(doc.phases) : doc.phases[i].name = phase_name }
        phases == IF found = {} THEN doc.phases
                  ELSE LET i == CHOOSE k \in found : \A j \in found : k <= j
                       IN [doc.phases EXCEPT
                             ![i].status = status,
                             ![i].duration = IF duration # "None" THEN duration ELSE @]
        counted == IF status \in {"passed", "failed", "skipped"}
                   THEN [doc.summary EXCEPT ![status] = @ + 1]
                   ELSE [doc.summary EXCEPT !.skipped = @ + 1]
        current == IF status = "running" THEN phase_name
                   ELSE IF status = "failed" THEN "(failed)"
                   ELSE doc.current_phase
    IN [doc EXCEPT !.phases = phases, !.summary = counted,
                       !.current_phase = current]

\* def update_phase(summary, phase_name, status, duration=None), up to its
\* call of write_summary
update_phase(doc, phase_name, status, duration) ==
    LET found == { i \in 1..Len(doc.phases) : doc.phases[i].name = phase_name }
        phases == IF found = {} THEN doc.phases
                  ELSE LET i == CHOOSE k \in found : \A j \in found : k <= j
                       IN [doc.phases EXCEPT
                             ![i].status = status,
                             ![i].duration = IF duration # "None" THEN duration ELSE @]
        counted == IF status \in {"passed", "failed", "skipped"}
                   THEN [doc.summary EXCEPT ![status] = @ + 1]
                   ELSE doc.summary
        current == IF status = "running" THEN phase_name
                   ELSE IF status = "failed" THEN "(failed)"
                   ELSE doc.current_phase
    IN [doc EXCEPT !.phases = phases, !.summary = counted,
                       !.current_phase = current]

\* a finalize_summary that leaves the status field as it is
finalize_summary_statusKept(doc, overall_status) ==
    [doc EXCEPT !.ended = "set", !.duration = "set", !.current_phase = "None"]

\* def finalize_summary(summary, overall_status), up to its call of
\* write_summary
finalize_summary(doc, overall_status) ==
    [doc EXCEPT !.status = overall_status, !.ended = "set",
                    !.duration = "set", !.current_phase = "None"]

\* a runner process at the top of main()
StartProc ==
    [pc |-> "start", w |-> "idle", data |-> init_summary(<<>>), fd |-> 0,
     all_passed |-> TRUE, child |-> "none", exit_code |-> NoExit, ret |-> NoExit]

\* the content of a file just opened with mode 'w'
EmptyFile == [state |-> "empty", doc |-> init_summary(<<>>)]

\* the content of a file after json.dump and close
CompleteFile(doc) == [state |-> "complete", doc |-> doc]

\* the summary an earlier, finished run left at the fixed path
EarlierDoc ==
    finalize_summary(update_phase(init_summary(Phases), Phases[1], "passed", "set"),
                     "passed")

\* a run_command that reports a command it could not wait for as passed
t_run_command_timeoutPasses(child) ==
    IF child.kind = "exited" THEN child.returncode ELSE 0

\* def run_command(cmd, cwd, env=None) of the runner: the exit_code it
\* returns for what the delegated command does
t_run_command(child) ==
    IF child.kind = "exited" THEN child.returncode
    ELSE IF child.kind = "timeout" THEN 0 - 1     \* except subprocess.TimeoutExpired
    ELSE 0 - 1                                    \* except Exception

\* what `npm run test:all` can do
TestChildren ==
    { [kind |-> "exited", returncode |-> rc] : rc \in 0..MaxExitCode }
    \cup { [kind |-> "timeout", returncode |-> 0],
           [kind |-> "cannot_start", returncode |-> 0] }

\* main(): the production check, then init_summary and the first
\* write_summary
main_start(r) ==
    /\ t_proc[r].pc = "start"
    /\ IF is_production_environment(t_env).is_prod
       THEN t_proc' = [t_proc EXCEPT ![r].pc = "done", ![r].ret = 2]
       ELSE t_proc' = [t_proc EXCEPT ![r].pc = "update_running",
                                     ![r].data = init_summary(Phases),
                                     ![r].all_passed = TRUE,
                                     ![r].w = "open"]
    /\ UNCHANGED <<t_env, fs, t_versions, mon_seen>>

\* update_phase(summary, "typescript-e2e", "running")
main_phase_running(r) ==
    /\ t_proc[r].pc = "update_running"
    /\ t_proc[r].w = "idle"
    /\ t_proc' = [t_proc EXCEPT
                    ![r].pc = "phase",
                    ![r].data = update_phase(@, Phases[1], "running", "None"),
                    ![r].w = "open"]
    /\ UNCHANGED <<t_env, fs, t_versions, mon_seen>>

\* the package.json test, run_command and the update_phase that follows
main_phase(r) ==
    /\ t_proc[r].pc = "phase"
    /\ t_proc[r].w = "idle"
    /\ IF ~t_env.pkgjson
       THEN t_proc' = [t_proc EXCEPT
                         ![r].pc = "finalize",
                         ![r].data = update_phase(@, Phases[1], "skipped", "None"),
                         ![r].w = "open"]
       ELSE \E child \in TestChildren :
              LET exit_code == t_run_command(child)
              IN t_proc' = [t_proc EXCEPT
                    ![r].pc = "finalize",
                    ![r].child = child.kind,
                    ![r].exit_code = exit_code,
                    ![r].data = update_phase(@, Phases[1],
                                   IF exit_code = 0 THEN "passed" ELSE "failed", "set"),
                    ![r].all_passed = (exit_code = 0),
                    ![r].w = "open"]
    /\ UNCHANGED <<t_env, fs, t_versions, mon_seen>>

\* overall_status = "passed" if all_passed else "failed"; finalize_summary
main_finalize(r) ==
    /\ t_proc[r].pc = "finalize"
    /\ t_proc[r].w = "idle"
    /\ t_proc' = [t_proc EXCEPT
                    ![r].pc = "return",
                    ![r].data = finalize_summary(@,
                                   IF t_proc[r].all_passed THEN "passed" ELSE "failed"),
                    ![r].w = "open"]
    /\ UNCHANGED <<t_env, fs, t_versions, mon_seen>>

\* a main that returns 0 whatever the phases did
main_return_alwaysZero(r) ==
    /\ t_proc[r].pc = "return"
    /\ t_proc[r].w = "idle"
    /\ t_proc' = [t_proc EXCEPT ![r].pc = "done", ![r].ret = 0]
    /\ UNCHANGED <<t_env, fs, t_versions, mon_seen>>

\* return 0 if all_passed else 1
main_return(r) ==
    /\ t_proc[r].pc = "return"
    /\ t_proc[r].w = "idle"
    /\ t_proc' = [t_proc EXCEPT
                    ![r].pc = "done",
                    ![r].ret = IF t_proc[r].all_passed THEN 0 ELSE 1]
    /\ UNCHANGED <<t_env, fs, t_versions, mon_seen>>

\* a write_summary that opens the summary path itself
write_summary_open_inPlace(r) ==
    /\ t_proc[r].w = "open"
    /\ IF fs.sum # 0
       THEN /\ fs' = [fs EXCEPT !.inodes[fs.sum] = EmptyFile]
            /\ t_proc' = [t_proc EXCEPT ![r].w = "dump", ![r].fd = fs.sum]
       ELSE /\ fs' = [fs EXCEPT !.inodes = Append(@, EmptyFile),
                                !.sum = Len(fs.inodes) + 1]
            /\ t_proc' = [t_proc EXCEPT ![r].w = "dump",
                                        ![r].fd = Len(fs.inodes) + 1]
    /\ UNCHANGED <<t_env, t_versions, mon_seen>>

\* write_summary: open(tmp_file, 'w') creates the temporary file, or
\* truncates the file that is at that path
write_summary_open(r) ==
    /\ t_proc[r].w = "open"
    /\ IF fs.tmp # 0
       THEN /\ fs' = [fs EXCEPT !.inodes[fs.tmp] = EmptyFile]
            /\ t_proc' = [t_proc EXCEPT ![r].w = "dump", ![r].fd = fs.tmp]
       ELSE /\ fs' = [fs EXCEPT !.inodes = Append(@, EmptyFile),
                                !.tmp = Len(fs.inodes) + 1]
            /\ t_proc' = [t_proc EXCEPT ![r].w = "dump",
                                        ![r].fd = Len(fs.inodes) + 1]
    /\ UNCHANGED <<t_env, t_versions, mon_seen>>

\* what a file holds after doc was written from offset 0 through a
\* descriptor: doc alone if the file was empty; if another descriptor wrote
\* another document to it since it was truncated, doc alone or doc followed
\* by what is left of the longer text that was there
DumpResults(old, doc) ==
    IF old.state = "empty" \/ old.doc = doc THEN {CompleteFile(doc)}
    ELSE {CompleteFile(doc), [state |-> "mixed", doc |-> doc]}

\* write_summary: json.dump(data, f) and the close at the end of `with`
write_summary_dump(r) ==
    /\ t_proc[r].w = "dump"
    /\ \E file \in DumpResults(fs.inodes[t_proc[r].fd], t_proc[r].data) :
          fs' = [fs EXCEPT !.inodes[t_proc[r].fd] = file]
    /\ t_proc' = [t_proc EXCEPT ![r].w = "rename", ![r].fd = 0]
    /\ UNCHANGED <<t_env, t_versions, mon_seen>>

\* write_summary: os.rename(tmp_file, SUMMARY_FILE); FileNotFoundError
\* leaves main() when nothing is at the temporary path
write_summary_rename(r) ==
    /\ t_proc[r].w = "rename"
    /\ IF fs.tmp = 0
       THEN /\ t_proc' = [t_proc EXCEPT ![r].w = "idle", ![r].pc = "done",
                                        ![r].ret = 1]
            /\ UNCHANGED <<fs, t_versions>>
       ELSE /\ fs' = [fs EXCEPT !.sum = fs.tmp, !.tmp = 0]
            /\ t_versions' = Append(t_versions,
                                [by |-> r, file |-> fs.inodes[fs.tmp]])
            /\ t_proc' = [t_proc EXCEPT ![r].w = "idle"]
    /\ UNCHANGED <<t_env, mon_seen>>

\* nothing outside the test runner and the summary file moves
RunnerFrame == UNCHANGED <<setupVars, cmdVars, demoVars>>

\* what a reader finds at the summary path
ReadSummaryFile ==
    IF fs.sum = 0 THEN [state |-> "nofile", inode |-> 0]
    ELSE [state |-> fs.inodes[fs.sum].state, inode |-> fs.sum]

\* the monitoring tool reads the summary path
MonitorRead ==
    /\ mon_seen' = ReadSummaryFile
    /\ mon_seen' # mon_seen
    /\ UNCHANGED <<t_env, t_proc, fs, t_versions>>
    /\ RunnerFrame

Runner_main_start == (\E r \in DOMAIN t_proc : main_start(r)) /\ RunnerFrame
Runner_main_phase_running == (\E r \in DOMAIN t_proc : main_phase_running(r)) /\ RunnerFrame
Runner_main_phase == (\E r \in DOMAIN t_proc : main_phase(r)) /\ RunnerFrame
Runner_main_finalize == (\E r \in DOMAIN t_proc : main_finalize(r)) /\ RunnerFrame
Runner_main_return == (\E r \in DOMAIN t_proc : main_return(r)) /\ RunnerFrame
Runner_write_summary_open == (\E r \in DOMAIN t_proc : write_summary_open(r)) /\ RunnerFrame
Runner_write_summary_dump == (\E r \in DOMAIN t_proc : write_summary_dump(r)) /\ RunnerFrame
Runner_write_summary_rename == (\E r \in DOMAIN t_proc : write_summary_rename(r)) /\ RunnerFrame

InitRunner ==
    /\ FreshRun
    /\ host = ConvergedHost
    /\ run = 1
    /\ prevExit = NoExit
    /\ prevRemediated = {}
    /\ NoCalls
    /\ NoDemo
    /\ t_env \in RunnerEnvs
    /\ t_proc = <<StartProc>>
    /\ fs \in {EmptyTmp,
               [tmp |-> 0, sum |-> 1, inodes |-> <<CompleteFile(EarlierDoc)>>]}
    /\ t_versions = <<>>
    /\ mon_seen = Unread

NextRunner ==
    \/ Runner_main_start
    \/ Runner_main_phase_running
    \/ Runner_main_phase
    \/ Runner_main_finalize
    \/ Runner_main_return
    \/ Runner_write_summary_open
    \/ Runner_write_summary_dump
    \/ Runner_write_summary_rename
    \/ MonitorRead

SpecRunner == InitRunner /\ [][NextRunner]_vars

\* two runners started on the same host, with no production marker and no
\* summary file from an earlier run
InitTwoRunners ==
    /\ FreshRun
    /\ host = ConvergedHost
    /\ run = 1
    /\ prevExit = NoExit
    /\ prevRemediated = {}
    /\ NoCalls
    /\ NoDemo
    /\ t_env = [user |-> NoFile, etc |-> NoFile, denied |-> {}, pkgjson |-> FALSE]
    /\ t_proc = <<StartProc, StartProc>>
    /\ fs = EmptyTmp
    /\ t_versions = <<>>
    /\ mon_seen = Unread

SpecTwoRunners == InitTwoRunners /\ [][NextRunner]_vars

----------------------------------------------------------------------------
(* scripts/dev/inject-demo.py: the wrapper around inject-demo.ts.  demo    *)
(* holds the wrapper's inputs (NODE_ENV, whether inject-demo.ts exists,    *)
(* sys.argv), the command it built, whether the child was started, how    *)
(* the child ended and the exit status of the wrapper.                     *)

\* values of os.environ.get("NODE_ENV"); "unset" stands for None
NodeEnvs == {"unset", "production", "Production", "development", ""}

\* sys.argv of the wrapper, the script name first
DemoArgvs ==
    {<<"inject-demo.py">>,
     <<"inject-demo.py", "--hours", "24">>,
     <<"inject-demo.py", "0x1234">>}

\* sys.argv[1:]
ArgvTail(argv) == SubSeq(argv, 2, Len(argv))

\* how subprocess.run(cmd, ...) can end: the child exited with a return
\* code, it was killed by a signal (returncode is the negated signal
\* number), npx could not be found, or the operator interrupted the wait
DemoChildren ==
    [kind : {"exited"}, returncode : 0..MaxExitCode]
        \cup [kind : {"signaled"}, returncode : {0 - 9, 0 - 15}]
        \cup {[kind |-> "npx_missing", returncode |-> NoExit],
              [kind |-> "interrupt", returncode |-> NoExit]}

\* the exit status the operating system keeps of sys.exit(n)
ExitStatus(n) == n % 256

\* a wrapper that starts the child whatever NODE_ENV is
demo_main_guard_noCheck ==
    /\ demo.pc = "guard"
    /\ demo' = [demo EXCEPT !.pc = "script"]

\* if os.environ.get("NODE_ENV") == "production": sys.exit(1)
demo_main_guard ==
    /\ demo.pc = "guard"
    /\ IF demo.node_env = "production"
         THEN demo' = [demo EXCEPT !.pc = "exited", !.exit_code = ExitStatus(1)]
         ELSE demo' = [demo EXCEPT !.pc = "script"]

\* if not ts_script.exists(): sys.exit(1); otherwise cmd is built
demo_main_script ==
    /\ demo.pc = "script"
    /\ IF ~demo.ts_exists
         THEN demo' = [demo EXCEPT !.pc = "exited", !.exit_code = ExitStatus(1)]
         ELSE demo' = [demo EXCEPT !.pc = "child",
                          !.cmd = <<"npx", "tsx", "--no-warnings", "inject-demo.ts">>
                                     \o ArgvTail(demo.argv)]

\* result = subprocess.run(cmd, cwd=...); sys.exit(result.returncode), with
\* the two except clauses
demo_main_child ==
    /\ demo.pc = "child"
    /\ \E c \in DemoChildren :
          demo' = [demo EXCEPT
                      !.pc = "exited",
                      !.child = c,
                      !.started = c.kind # "npx_missing",
                      !.exit_code =
                          CASE c.kind = "npx_missing" -> ExitStatus(1)
                            [] c.kind = "interrupt" -> ExitStatus(130)
                            [] OTHER -> ExitStatus(c.returncode)]

DemoFrame == UNCHANGED <<setupVars, cmdVars, runnerVars>>

Demo_main_guard == demo_main_guard /\ DemoFrame

Demo_main_script == demo_main_script /\ DemoFrame

Demo_main_child == demo_main_child /\ DemoFrame

InitDemo ==
    /\ FreshRun
    /\ host = ConvergedHost
    /\ run = 1
    /\ prevExit = NoExit
    /\ prevRemediated = {}
    /\ NoCalls
    /\ NoRunner
    /\ demo \in [pc : {"guard"}, node_env : NodeEnvs, ts_exists : BOOLEAN,
                 argv : DemoArgvs, cmd : {<<>>}, started : {FALSE},
                 child : {"none"}, exit_code : {NoExit}]

NextDemo ==
    \/ Demo_main_guard
    \/ Demo_main_script
    \/ Demo_main_child

SpecDemo == InitDemo /\ [][NextDemo]_vars

----------------------------------------------------------------------------
(* Properties                                                               *)

\* the condition under which the probe of a probed step reports its goal
\* as already satisfied
ProbeSatisfied(s, h) ==
    CASE s = "install_nodejs"              -> h.node = "v22"
      [] s = "install_npm_global_packages" -> h.pm2
      [] s = "install_postgresql"          -> h.psql = "17"
      [] s = "install_timescaledb"         -> h.psql # "absent" /\ h.tsdb
      [] s = "install_python_packages"     -> h.pymissing = {}
      [] s = "install_nginx"               -> h.nginx
      [] s = "install_certbot"             -> h.certbot
      [] s = "create_deploy_user"          -> h.deployUser
      [] OTHER                             -> FALSE

\* step s ended the run: sys.exit(1) inside it, or an exception out of it
FailedFatally(s) == outcome[s] \in {"Fatal", "Raised"}

\* the steps after s in the list have not started
LaterStepsNotRun(s) ==
    \A j \in (IndexOf(s) + 1)..Len(Steps) :
        /\ outcome[Steps[j]] = "NotRun"
        /\ mutated[Steps[j]] = {}
        /\ raised[Steps[j]] = "none"

\* C1: a probed step whose probe is satisfied when the step starts executes
\* no mutating command and leaves the host as it is.
C1_SatisfiedProbeShortCircuits ==
    [][ \A s \in ProbedSteps :
          (pc = "steps" /\ Steps[idx] = s /\ ProbeSatisfied(s, host))
             => (mutated'[s] = {} /\ host' = host /\ outcome'[s] = "Skipped") ]_vars

C1_Witness ==
    /\ \A s \in ProbedSteps : outcome[s] = "Skipped" /\ mutated[s] = {}
    /\ pc = "exited"

\* C2: once a step has failed fatally the process has exited, no later step
\* of the list has started and nothing has been reported for any of them,
\* the summary included.
C2_FailFast ==
    \A s \in StepNames :
        FailedFatally(s) =>
            /\ pc = "exited"
            /\ exitCode = 1
            /\ LaterStepsNotRun(s)
            /\ ~summary.printed

C2_Witness ==
    /\ outcome["install_npm_global_packages"] = "Fatal"
    /\ mutated["install_npm_global_packages"] # {}
    /\ outcome["install_nodejs"] = "Skipped"
    /\ outcome["install_postgresql"] = "NotRun"

\* the non-fatal actions named by C3
C3Actions ==
    {"timescaledb-tune", "CREATE EXTENSION", "chown", "npm install", "npm run db:push"}
    \cup GrantKinds

\* C3: every failed non-fatal action has appended one warning string to
\* context.warnings, and a run that then completes exits 0 with the warnings
\* in its summary.
C3_NonFatalContinuation ==
    LET failedActions == { e \in printedWarn : e.action \in C3Actions }
    IN /\ Cardinality(failedActions) <= Len(warnings)
       /\ (pc = "exited" /\ summary.printed) =>
              (exitCode = 0 /\ Cardinality(failedActions) <= Len(summary.warnings))

NoModeKey(conf) ==
    \A i \in 1..Len(conf.lines) :
        ~StartsWith(Strip(conf.lines[i], Whitespace), DEPLOYMENT_TYPE_EQ)

EmptyModeValue(conf) ==
    \E i \in 1..Len(conf.lines) :
        LET line == Strip(conf.lines[i], Whitespace)
        IN /\ StartsWith(line, DEPLOYMENT_TYPE_EQ)
           /\ SubSeq(line, Len(DEPLOYMENT_TYPE_EQ) + 1, Len(line))
                 \in { <<>>, <<"\"", "\"">>, <<"'", "'">> }
           /\ \A j \in 1..(i - 1) :
                 ~StartsWith(Strip(conf.lines[j], Whitespace), DEPLOYMENT_TYPE_EQ)

\* C6: with the file missing, the key absent or its value empty, the
\* deployment-mode resolution of setup_postgresql_databases ends the run
\* with exit 1, and neither it nor setup_database_permissions has executed
\* a command for a database.
C6_ModeResolutionFails ==
    (~host.conf.exists \/ NoModeKey(host.conf) \/ EmptyModeValue(host.conf)) =>
        /\ outcome["setup_postgresql_databases"] # "NotRun" =>
              /\ outcome["setup_postgresql_databases"] = "Fatal"
              /\ pc = "exited"
              /\ exitCode = 1
        /\ mutated["setup_postgresql_databases"] = {}
        /\ outcome["setup_database_permissions"] = "NotRun"
        /\ mutated["setup_database_permissions"] = {}
        /\ exitCode \in {NoExit, 1}

C6_Witness ==
    /\ EmptyModeValue(host.conf)
    /\ outcome["setup_postgresql_databases"] = "Fatal"
    /\ host.dbs = {"suiftly_prod"}
    /\ exitCode = 1

\* C7: when a step has ended the run by a failed remediation, failed_steps
\* holds exactly the name of that step.
C7_FailedStepRecorded ==
    \A s \in StepNames :
        (pc = "exited" /\ outcome[s] = "Fatal" /\ mutated[s] # {})
            => failed_steps = <<s>>

\* C8 as stated: every error raised inside a step reaches the step loop of
\* main, which appends the step to failed_steps and exits 1.
C8_EveryErrorCaughtInMain ==
    \A s \in StepNames :
        raised[s] # "none" =>
            /\ raised[s] = "propagated"
            /\ failed_steps = <<s>>
            /\ pc = "exited"
            /\ exitCode = 1

\* C8 amended: an error that propagates out of a step function is caught by
\* the step loop of main, which appends that step, and only it, to
\* failed_steps and exits 1 with no later step run and no summary; an error
\* caught by the step's own handler never reaches failed_steps.
C8_PropagatedErrorCaughtInMain ==
    \A s \in StepNames :
        /\ raised[s] = "propagated" =>
              /\ failed_steps = <<s>>
              /\ outcome[s] = "Raised"
              /\ pc = "exited"
              /\ exitCode = 1
              /\ LaterStepsNotRun(s)
              /\ ~summary.printed
        /\ raised[s] # "propagated" => s \notin Range(failed_steps)

C8_Witness ==
    /\ raised["create_directory_structure"] = "propagated"
    /\ failed_steps = <<"create_directory_structure">>
    /\ outcome["create_deploy_user"] = "Skipped"
    /\ exitCode = 1

\* C9: a terminated run has exit status 0 exactly when every step of the
\* list returned, whatever warnings were accumulated, and 1 otherwise.
C9_ExitStatus ==
    pc = "exited" =>
        /\ exitCode \in {0, 1}
        /\ exitCode = 0 <=>
              \A s \in StepNames : outcome[s] \notin {"NotRun", "Fatal", "Raised"}

C9_Witness ==
    /\ pc = "exited"
    /\ exitCode = 0
    /\ warnings # <<>>
    /\ \A s \in StepNames : outcome[s] # "NotRun"

\* C10: at the end of a run every fatal failure is listed in the summary's
\* failed steps and every failed non-fatal action that was reported with a
\* warning is listed in the summary's warnings.
C10_FailuresRepeatedInSummary ==
    pc = "exited" =>
        /\ \A s \in StepNames :
              FailedFatally(s) =>
                  /\ summary.printed
                  /\ s \in Range(summary.failed)
                  /\ exitCode = 1
        /\ exitCode = 0 => Cardinality(printedWarn) <= Len(summary.warnings)

\* one sequence extends the other
IsPrefix(a, b) == Len(a) <= Len(b) /\ SubSeq(b, 1, Len(a)) = a

C12_RunCommandNeverRaises ==
    rc_calls > 0 =>
        /\ rc_result.raised = "none"
        /\ rc_call.child.kind = "exited" =>
              /\ rc_result.returncode = rc_call.child.returncode
              /\ rc_result.stdout = rc_call.child.stdout
              /\ rc_result.stderr = rc_call.child.stderr
        /\ rc_call.child.kind # "exited" => rc_result.returncode = 127

\* C13: the audio candidates are probed in the order libasound2t64,
\* libasound2; installs are attempted in the same order and stop at the
\* first success; when no candidate is present and every install fails the
\* step ends in a fatal failure and never reports success.
C13_AudioCandidates ==
    LET cmds == mutated["install_system_packages"]
    IN /\ AptInstall({AudioPackages[2]}) \subseteq cmds =>
              /\ AptInstall({AudioPackages[1]}) \subseteq cmds
              /\ AudioPackages[1] \notin host.audio
       /\ outcome["install_system_packages"] \in {"Skipped", "Remediated"} =>
              host.audio # {}
       /\ (/\ AptInstall({AudioPackages[1], AudioPackages[2]}) \subseteq cmds
           /\ host.audio = {}) =>
              /\ outcome["install_system_packages"] = "Fatal"
              /\ pc = "exited"
              /\ exitCode = 1

\* the version the probe of a versioned tool reads on host h
ToolVersion(s, h) == IF s = "install_nodejs" THEN h.node ELSE h.psql

\* the major version a versioned tool is required to have
RequiredVersion(s) == IF s = "install_nodejs" THEN "v22" ELSE "17"

\* C14: install_nodejs and install_postgresql skip when the tool is present
\* with the required major version, fail fatally without executing any
\* command when it is present with another or an unparsable version, and
\* execute install commands only when the tool is absent.
C14_VersionPolicy ==
    [][ \A s \in {"install_nodejs", "install_postgresql"} :
          (pc = "steps" /\ Steps[idx] = s) =>
             LET v == ToolVersion(s, host)
             IN /\ v = RequiredVersion(s) =>
                      outcome'[s] = "Skipped" /\ mutated'[s] = {} /\ host' = host
                /\ v \notin {RequiredVersion(s), "absent"} =>
                      /\ outcome'[s] = "Fatal"
                      /\ mutated'[s] = {}
                      /\ host' = host
                      /\ pc' = "exited"
                      /\ exitCode' = 1
                /\ mutated'[s] # {} => v = "absent" ]_vars

C14_Witness ==
    /\ host.psql = "unparsable"
    /\ outcome["install_nodejs"] = "Skipped"
    /\ outcome["install_postgresql"] = "Fatal"
    /\ mutated["install_postgresql"] = {}
    /\ exitCode = 1

\* the script is not run as root, or the host is not Ubuntu 24.04 or later
PreconditionViolated(h) ==
    \/ h.euid # 0
    \/ ~h.osrel.exists
    \/ h.osrel.id # "ubuntu"
    \/ VersionFloat100(h.osrel.version) < 2404

\* C15: when the script is not run as root, or the host is not Ubuntu, or
\* its version is below 24.04 or cannot be parsed, the process exits 1
\* before any mutating command has been executed and before any step after
\* the version check has started.
C15_PreconditionViolations ==
    PreconditionViolated(host) =>
        /\ \A s \in StepNames : mutated[s] = {}
        /\ \A s \in StepNames \ {"check_ubuntu_version"} : outcome[s] = "NotRun"
        /\ outcome["check_ubuntu_version"] \in {"NotRun", "Fatal"}
        /\ pc \in {"start", "steps", "exited"}
        /\ pc = "steps" => idx = 1
        /\ pc = "exited" => exitCode = 1
        /\ host.euid # 0 => outcome["check_ubuntu_version"] = "NotRun"

C15_Witness ==
    /\ host.osrel.version = "22.04"
    /\ outcome["check_ubuntu_version"] = "Fatal"
    /\ pc = "exited"
    /\ exitCode = 1
    /\ run = 2

\* C16: install_certbot executes its install command only when the
\* deployment mode is production; in development mode no Certbot install
\* command is executed.
C16_CertbotOnlyInProduction ==
    mutated["install_certbot"] # {} =>
        /\ host.conf.exists
        /\ ReadDeploymentType(host.conf.lines) = production

\* the databases named by the commands that step s executed
DatabasesTouched(s) == { c.arg : c \in mutated[s] } \ {""}

\* C17: in production mode the two database steps create, extend and grant
\* on suiftly_prod only, in development mode on suiftly_dev and suiftly_test
\* only; no command of a run names a database of the other mode's set.
C17_DatabaseSetByMode ==
    host.conf.exists =>
        LET mode == ReadDeploymentType(host.conf.lines)
            selected == IF mode = production THEN {"suiftly_prod"}
                        ELSE {"suiftly_dev", "suiftly_test"}
        IN mode \in {production, development} =>
              \A s \in {"setup_postgresql_databases", "setup_database_permissions"} :
                  /\ DatabasesTouched(s) \subseteq selected
                  /\ outcome[s] = "Remediated" => DatabasesTouched(s) = selected

C17_Witness ==
    /\ ReadDeploymentType(host.conf.lines) = development
    /\ [cmd |-> "createdb", arg |-> "suiftly_dev"]
          \in mutated["setup_postgresql_databases"]
    /\ [cmd |-> "createdb", arg |-> "suiftly_test"]
          \in mutated["setup_postgresql_databases"]
    /\ outcome["setup_database_permissions"] = "Remediated"
    /\ "suiftly_prod" \notin DatabasesTouched("setup_database_permissions")

\* the steps that resolve the invoking user
UserSteps ==
    {"check_nvm_installed", "check_nvm_node_version",
     "install_npm_dependencies", "run_database_migrations"}

\* C18: each step that needs the invoking user takes SUDO_USER when it is
\* set and non-empty and USER otherwise; when neither gives a name, or the
\* name is unknown to the password database, the step fails fatally and
\* the run exits 1; a resolved, known user is no reason to fail.
C18_InvokingUserResolution ==
    [][ \A s \in UserSteps :
          (pc = "steps" /\ Steps[idx] = s) =>
             LET real_user == IF host.sudo_user # "" THEN host.sudo_user
                              ELSE host.user
                 resolved == real_user # "" /\ real_user \in KnownUsers(host)
             IN /\ ~resolved =>
                      /\ outcome'[s] = "Fatal"
                      /\ mutated'[s] = {}
                      /\ pc' = "exited"
                      /\ exitCode' = 1
                /\ (resolved /\ host.nvm = "v22") => outcome'[s] # "Fatal" ]_vars

C18_Witness ==
    /\ host.sudo_user = "ghost"
    /\ host.user = "root"
    /\ outcome["check_nvm_installed"] = "Fatal"
    /\ pc = "exited"
    /\ exitCode = 1

\* step s returned to the loop of main
Completed(out) == out \notin {"NotRun", "Fatal", "Raised"}

\* C19: within a run the steps start one at a time in list order, each at
\* most once, and a step starts only after the step before it in the list
\* has returned without a fatal failure; setup_postgresql_databases never
\* starts unless install_postgresql and install_timescaledb have completed.
C19_StrictListOrder ==
    [][ run' = run =>
          /\ Cardinality({ s \in StepNames : outcome'[s] # outcome[s] }) <= 1
          /\ \A s \in StepNames :
                outcome[s] # "NotRun" =>
                    /\ outcome'[s] = outcome[s]
                    /\ mutated'[s] = mutated[s]
          /\ \A i \in 1..(Len(Steps) - 1) :
                outcome'[Steps[i + 1]] # "NotRun" => Completed(outcome'[Steps[i]])
          /\ outcome'["setup_postgresql_databases"] # "NotRun" =>
                /\ Completed(outcome'["install_postgresql"])
                /\ Completed(outcome'["install_timescaledb"]) ]_vars

C19_Witness ==
    /\ outcome["install_postgresql"] = "Remediated"
    /\ outcome["install_timescaledb"] = "Skipped"
    /\ outcome["setup_postgresql_databases"] = "Remediated"
    /\ pc = "exited"
    /\ exitCode = 0

\* C20: a probed step that finds its package absent and whose install
\* succeeds is reported as remediated; once the install has established
\* the probed condition, nothing later in the run and nothing between the
\* runs undoes it, and in the next run on the unchanged host the step finds
\* its probe satisfied and is skipped without an install command.
C20_RemediatedThenSkipped ==
    [][ /\ \A s \in ProbedSteps :
             (pc = "steps" /\ Steps[idx] = s) =>
                /\ (~ProbeSatisfied(s, host) /\ Completed(outcome'[s])) =>
                       outcome'[s] = "Remediated" /\ mutated'[s] # {}
                /\ (run >= 2 /\ s \in prevRemediated /\ ProbeSatisfied(s, host)) =>
                       outcome'[s] = "Skipped" /\ mutated'[s] = {} /\ host' = host
        /\ \A s \in ProbedSteps : ProbeSatisfied(s, host) => ProbeSatisfied(s, host')
        /\ run' # run =>
              /\ host' = host
              /\ prevRemediated' = { s \in ProbedSteps : outcome[s] = "Remediated" } ]_vars

C20_Witness ==
    /\ run = 2
    /\ "install_python_packages" \in prevRemediated
    /\ outcome["install_python_packages"] = "Skipped"
    /\ mutated["install_python_packages"] = {}
    /\ host.pymissing = {}

\* C21: a step reports its already-satisfied outcome ("all present",
\* "already installed") only when it has executed no host-mutating command
\* in that run.
C21_SatisfiedOutcomeWithoutMutation ==
    \A s \in StepNames : outcome[s] = "Skipped" => mutated[s] = {}

\* every fact established on host h is still established on host h2
HostKept(h, h2) ==
    /\ \A s \in ProbedSteps : ProbeSatisfied(s, h) => ProbeSatisfied(s, h2)
    /\ h2.missing \subseteq h.missing
    /\ h.audio \subseteq h2.audio
    /\ h.dbs \subseteq h2.dbs
    /\ h.ext \subseteq h2.ext
    /\ h.role => h2.role
    /\ h2.pymissing \subseteq h.pymissing
    /\ h.dirs => h2.dirs
    /\ h.deps => h2.deps
    /\ h.schema => h2.schema

\* C22: when a run halts on a fatal failure at a step, everything the
\* earlier steps and the completed part of that step established on the
\* host is kept, the commands recorded for the other steps are as they were,
\* and nothing changes the host after the halt, a new invocation included.
C22_NoRollback ==
    [][ /\ (pc = "steps" /\ pc' = "exited") =>
              /\ HostKept(host, host')
              /\ \A s \in StepNames \ {Steps[idx]} : mutated'[s] = mutated[s]
        /\ pc = "exited" => host' = host ]_vars

C22_Witness ==
    /\ outcome["create_deploy_user"] = "Remediated"
    /\ host.deployUser
    /\ outcome["create_directory_structure"] = "Raised"
    /\ pc = "exited"
    /\ exitCode = 1

\* the install steps with a single candidate
SingleCandidateSteps ==
    {"install_npm_global_packages", "install_certbot", "install_python_packages",
     "install_nginx", "install_postgresql", "create_deploy_user"}

\* C23: in a single-candidate install step that starts with its probe
\* unsatisfied, once the remediation commands have returned 0 the step is
\* reported successful, without a warning and with the run going on to the
\* next step, whether or not the probe would be satisfied afterwards: the
\* probe is not consulted again.
C23_TrustOnCompletion ==
    [][ \A s \in SingleCandidateSteps :
          (/\ pc = "steps" /\ Steps[idx] = s
           /\ ~ProbeSatisfied(s, host)
           /\ Completed(outcome'[s])) =>
              /\ outcome'[s] = "Remediated"
              /\ warnings' = warnings
              /\ failed_steps' = failed_steps
              /\ idx' = idx + 1
              /\ pc' = "steps"
              /\ exitCode' = exitCode ]_vars

\* a step reported successful while its probe still reports unsatisfied
C23_Witness ==
    /\ outcome["install_certbot"] = "Remediated"
    /\ ~ProbeSatisfied("install_certbot", host)
    /\ pc = "exited"
    /\ exitCode = 0
    /\ warnings = <<>>

\* C29: the deployment mode is the value of the first line that, stripped
\* of surrounding white space, is neither blank nor a # comment and starts
\* with DEPLOYMENT_TYPE=; later such lines are ignored; surrounding single
\* or double quotes are removed and the value is lower-cased; without such a
\* line there is no value; and the two steps that read the file act on the
\* same value.
C29_ModeParsing ==
    host.conf.exists =>
        LET lines == host.conf.lines
            stripped == [i \in 1..Len(lines) |-> Strip(lines[i], Whitespace)]
            K == { i \in 1..Len(lines) :
                     /\ stripped[i] # <<>>
                     /\ stripped[i][1] # "#"
                     /\ StartsWith(stripped[i], DEPLOYMENT_TYPE_EQ) }
            v == ReadDeploymentType(lines)
        IN /\ K = {} => v = None
           /\ K # {} =>
                LET first == CHOOSE i \in K : \A j \in K : i <= j
                    raw == SubSeq(stripped[first], Len(DEPLOYMENT_TYPE_EQ) + 1,
                                  Len(stripped[first]))
                IN /\ \A i \in 1..Len(v) : v[i] \notin Range(UpperCase)
                   /\ v # <<>> => (v[1] \notin Quotes /\ v[Len(v)] \notin Quotes)
                   /\ \E a \in 0..Len(raw) :
                         /\ a + Len(v) <= Len(raw)
                         /\ \A i \in 1..a : raw[i] \in Quotes
                         /\ \A i \in (a + Len(v) + 1)..Len(raw) : raw[i] \in Quotes
                         /\ \A i \in 1..Len(v) : LowerChar(raw[a + i]) = v[i]
           /\ host.conf = ConfProduction => v = production
           /\ host.conf = ConfQuotedUpper => v = production
           /\ host.conf = ConfTwoKeys => v = development
           /\ host.conf = ConfNoKey => v = None
           /\ (/\ outcome["setup_postgresql_databases"] = "Remediated"
               /\ outcome["setup_database_permissions"] = "Remediated") =>
                 DatabasesTouched("setup_postgresql_databases")
                    = DatabasesTouched("setup_database_permissions")

C29_Witness ==
    /\ host.conf = ConfQuotedUpper
    /\ ReadDeploymentType(host.conf.lines) = production
    /\ outcome["setup_postgresql_databases"] = "Remediated"
    /\ outcome["setup_database_permissions"] = "Remediated"
    /\ DatabasesTouched("setup_database_permissions") = {"suiftly_prod"}

\* C30: when main reaches its final summary failed_steps is empty, and the
\* summary it prints never lists a failed step.
C30_NoFailedStepsAtSummary ==
    /\ pc = "summary" => failed_steps = <<>>
    /\ summary.printed => (summary.failed = <<>> /\ summary.complete)
    /\ failed_steps # <<>> => (pc = "exited" /\ exitCode = 1 /\ ~summary.printed)

C30_Witness ==
    /\ pc = "exited"
    /\ summary.printed
    /\ summary.failed = <<>>
    /\ failed_steps = <<>>
    /\ summary.warnings # <<>>
    /\ run = 2
    /\ prevExit = 1

\* C24: every write of the summary goes to the temporary file, which is
\* then renamed onto the fixed path, so a monitor that reads the fixed path
\* while a runner is running never finds an empty or partly written
\* document: it finds no file, or the complete document of an earlier run,
\* or a complete version this runner has renamed into place.
C24_AtomicSummaryWrites ==
    /\ ReadSummaryFile.state \in {"nofile", "complete"}
    /\ mon_seen.state \in {"unread", "nofile", "complete"}
    /\ mon_seen.state = "complete" =>
          \/ fs.inodes[mon_seen.inode] = CompleteFile(EarlierDoc)
          \/ \E i \in 1..Len(t_versions) :
                fs.inodes[mon_seen.inode] = t_versions[i].file
    /\ \A r \in DOMAIN t_proc :
          t_proc[r].fd # 0 => (t_proc[r].fd # fs.sum /\ t_proc[r].fd = fs.tmp)

\* the monitor has read a complete running version while the runner is in
\* the middle of writing the next one
C24_Witness ==
    /\ mon_seen.state = "complete"
    /\ mon_seen.inode = fs.sum
    /\ fs.inodes[fs.sum].doc.status = "running"
    /\ t_proc[1].w = "dump"
    /\ fs.inodes[fs.tmp].state = "empty"

\* the status field of the i-th version renamed onto the summary path
VersionStatus(i) == t_versions[i].file.doc.status

\* some phase of document doc ended failed
SomePhaseFailed(doc) ==
    \E i \in 1..Len(doc.phases) : doc.phases[i].status = "failed"

\* C25: the status field of every written version is running, passed or
\* failed; it is running in every version from initialization up to
\* finalization, only the last version of a run has another status, so the
\* status changes once and never returns to running; and the final status
\* is passed exactly when no phase ended failed, a skipped phase included.
C25_StatusLifecycle ==
    /\ \A i \in 1..Len(t_versions) :
          /\ VersionStatus(i) \in {"running", "passed", "failed"}
          /\ VersionStatus(i) # "running" =>
                /\ i = Len(t_versions)
                /\ t_proc[t_versions[i].by].pc \in {"return", "done"}
                /\ VersionStatus(i) = "passed"
                      <=> ~SomePhaseFailed(t_versions[i].file.doc)
    /\ \A r \in DOMAIN t_proc :
          /\ t_proc[r].data.status \in {"running", "passed", "failed"}
          /\ (t_proc[r].pc = "done" /\ t_proc[r].ret \in {0, 1}) =>
                /\ t_versions # <<>>
                /\ VersionStatus(Len(t_versions)) # "running"
                /\ \A i \in 1..(Len(t_versions) - 1) : VersionStatus(i) = "running"

C25_Witness ==
    /\ t_proc[1].pc = "done"
    /\ Len(t_versions) = 4
    /\ VersionStatus(3) = "running"
    /\ VersionStatus(4) = "passed"
    /\ t_versions[4].file.doc.phases[1].status = "skipped"

\* C26: when the delegated test command exceeds the timeout or cannot be
\* started, the phase becomes failed, the failed count is incremented, the
\* overall status is failed and the runner exits 1.
C26_TimeoutIsFailedPhase ==
    \A r \in DOMAIN t_proc :
        t_proc[r].child \in {"timeout", "cannot_start"} =>
            /\ t_proc[r].data.phases[1].status = "failed"
            /\ t_proc[r].data.summary.failed = 1
            /\ ~t_proc[r].all_passed
            /\ t_proc[r].pc \in {"return", "done"} => t_proc[r].data.status = "failed"
            /\ t_proc[r].pc = "done" =>
                  /\ t_proc[r].ret = 1
                  /\ VersionStatus(Len(t_versions)) = "failed"
                  /\ fs.inodes[fs.sum].doc.summary.failed = 1

C26_Witness ==
    /\ t_proc[1].child = "timeout"
    /\ t_proc[1].pc = "done"
    /\ t_proc[1].ret = 1
    /\ fs.inodes[fs.sum].doc.status = "failed"

\* C27: the runner returns 2 when a production environment is detected,
\* and then it has run no test command and written no summary file;
\* otherwise it returns 0 exactly when no phase failed and 1 when one did.
C27_ExitCodes ==
    \A r \in DOMAIN t_proc :
        LET is_prod == is_production_environment(t_env).is_prod
        IN /\ is_prod =>
                /\ t_proc[r].pc \in {"start", "done"}
                /\ t_proc[r].pc = "done" => t_proc[r].ret = 2
                /\ t_proc[r].child = "none"
                /\ t_versions = <<>>
                /\ fs.tmp = 0
                /\ \A i \in 1..Len(fs.inodes) : fs.inodes[i] = CompleteFile(EarlierDoc)
           /\ (~is_prod /\ t_proc[r].pc = "done") =>
                /\ t_proc[r].ret \in {0, 1}
                /\ t_proc[r].ret = 0 <=> ~SomePhaseFailed(t_proc[r].data)
           /\ t_proc[r].ret = 2 => is_prod

C27_Witness ==
    /\ t_env.user = UserNoKey
    /\ t_env.etc = ConfProduction
    /\ t_env.denied = {}
    /\ t_env.pkgjson
    /\ t_proc[1].pc = "done"
    /\ t_proc[1].ret = 2
    /\ t_versions = <<>>
    /\ fs.sum = 0

\* C28 as stated: the wrapper never starts the child when NODE_ENV is
\* production and exits 1; in every other case it exits with exactly the
\* child's exit code, or with 130 when the operator interrupted the child.
C28_ExitsWithChildCode ==
    /\ demo.node_env = "production" =>
          /\ ~demo.started
          /\ demo.pc = "exited" => demo.exit_code = 1
    /\ (demo.node_env # "production" /\ demo.pc = "exited") =>
          /\ demo.started
          /\ \/ demo.child.kind = "interrupt" /\ demo.exit_code = 130
             \/ demo.child.kind = "exited"
                   /\ demo.exit_code = demo.child.returncode

\* C28: the wrapper never starts the child when NODE_ENV is exactly
\* production and exits 1; it also exits 1 without a child when
\* inject-demo.ts is missing or npx cannot be found; when the child exited
\* the wrapper exits with the child's exit code, when the child was killed
\* by signal n with 256 - n, and when the operator interrupted the child
\* with 130.  The command is npx tsx --no-warnings inject-demo.ts followed
\* by the wrapper's own arguments.
C28_WrapperExitCodes ==
    /\ demo.node_env = "production" =>
          /\ ~demo.started
          /\ demo.pc \in {"guard", "exited"}
          /\ demo.pc = "exited" => demo.exit_code = 1
    /\ demo.started =>
          /\ demo.ts_exists
          /\ demo.cmd = <<"npx", "tsx", "--no-warnings", "inject-demo.ts">>
                            \o ArgvTail(demo.argv)
    /\ (demo.node_env # "production" /\ demo.pc = "exited") =>
          \/ ~demo.ts_exists /\ ~demo.started /\ demo.exit_code = 1
          \/ /\ demo.ts_exists
             /\ demo.child.kind = "npx_missing"
             /\ ~demo.started
             /\ demo.exit_code = 1
          \/ /\ demo.started
             /\ demo.child.kind = "exited"
             /\ demo.exit_code = demo.child.returncode
          \/ /\ demo.started
             /\ demo.child.kind = "signaled"
             /\ demo.exit_code = 256 + demo.child.returncode
          \/ /\ demo.started
             /\ demo.child.kind = "interrupt"
             /\ demo.exit_code = 130

C28_Witness ==
    /\ demo.pc = "exited"
    /\ demo.node_env = "development"
    /\ demo.argv = <<"inject-demo.py", "--hours", "24">>
    /\ demo.started
    /\ demo.child = [kind |-> "exited", returncode |-> 2]
    /\ demo.exit_code = 2


\* the two steps that read the deployment mode
ModeSteps == {"setup_postgresql_databases", "setup_database_permissions"}

\* C31: a non-empty deployment mode other than production (staging, a
\* misspelling) is accepted: neither step stops on it, a stop of
\* setup_postgresql_databases comes from a command it executed, and both
\* steps work on suiftly_dev and suiftly_test only.
C31_UnknownModeIsDevelopment ==
    (/\ host.conf.exists
     /\ ~Falsy(ReadDeploymentType(host.conf.lines))
     /\ ReadDeploymentType(host.conf.lines) # production) =>
        /\ \A s \in ModeSteps :
              /\ DatabasesTouched(s) \subseteq {"suiftly_dev", "suiftly_test"}
              /\ outcome[s] = "Remediated" =>
                    DatabasesTouched(s) = {"suiftly_dev", "suiftly_test"}
        /\ outcome["setup_postgresql_databases"] = "Fatal" =>
              mutated["setup_postgresql_databases"] # {}
        /\ outcome["setup_database_permissions"] \in {"NotRun", "Remediated"}

C31_Witness ==
    /\ host.conf = ConfStaging
    /\ ReadDeploymentType(host.conf.lines) = staging
    /\ outcome["setup_postgresql_databases"] = "Remediated"
    /\ outcome["setup_database_permissions"] = "Remediated"
    /\ [cmd |-> "createdb", arg |-> "suiftly_dev"]
          \in mutated["setup_postgresql_databases"]
    /\ pc = "exited"
    /\ exitCode = 0


\* the host with another deployment configuration file
WithConf(h, conf) == [h EXCEPT !.conf = conf]

\* C32: setup_database_permissions does not check the deployment mode: on a
\* configuration file without a mode, or with an empty one, it returns after
\* running its commands on the development set; yet in a run it is only
\* executed after setup_postgresql_databases has returned in the same run,
\* hence with a configuration file that exists and holds a non-empty mode,
\* and it works on the databases that step selected.
C32_PermissionsRunOnValidatedMode ==
    /\ \A conf \in {ConfNoKey, ConfEmptyValue, ConfEmptyQuoted} :
          \A r \in setup_database_permissions(WithConf(host, conf)) :
              /\ r.kind = "return"
              /\ { c.arg : c \in r.cmds } = {"suiftly_dev", "suiftly_test"}
    /\ outcome["setup_database_permissions"] # "NotRun" =>
          /\ outcome["setup_postgresql_databases"] = "Remediated"
          /\ host.conf.exists
          /\ ~Falsy(ReadDeploymentType(host.conf.lines))
          /\ DatabasesTouched("setup_database_permissions")
                = DatabasesTouched("setup_postgresql_databases")
          /\ Range(DatabasesFor(ReadDeploymentType(host.conf.lines)))
                = DatabasesTouched("setup_database_permissions")

C32_Witness ==
    /\ host.conf = ConfTwoKeys
    /\ outcome["setup_postgresql_databases"] = "Remediated"
    /\ outcome["setup_database_permissions"] = "Remediated"
    /\ DatabasesTouched("setup_database_permissions") = {"suiftly_dev", "suiftly_test"}
    /\ pc = "steps"
    /\ Steps[idx] = "install_python_packages"


\* what step s needs of the project directory is missing on host h
ProjectMissing(s, h) ==
    \/ ~h.project.dir
    \/ s = "install_npm_dependencies" /\ ~h.project.pkgjson
    \/ s = "run_database_migrations" /\ ~h.project.dbpkg

\* C33: when the project directory, or package.json for
\* install_npm_dependencies, or packages/database for
\* run_database_migrations, is missing, the step executes no command,
\* leaves the host and context.warnings as they are and, the invoking user
\* being resolved, returns so that the run goes on.
C33_MissingProjectIsSilent ==
    [][\A s \in {"install_npm_dependencies", "run_database_migrations"} :
          (/\ pc = "steps"
           /\ Steps[idx] = s
           /\ ProjectMissing(s, host)
           /\ outcome'[s] # outcome[s]) =>
             /\ warnings' = warnings
             /\ printedWarn' = printedWarn
             /\ mutated'[s] = {}
             /\ host' = host
             /\ RealUser(host) \in KnownUsers(host) =>
                   /\ outcome'[s] = "NoOp"
                   /\ pc' # "exited"
                   /\ failed_steps' = failed_steps]_vars

C33_Witness ==
    /\ ~host.project.dir
    /\ ~host.deps
    /\ ~host.schema
    /\ outcome["install_npm_dependencies"] = "NoOp"
    /\ outcome["run_database_migrations"] = "NoOp"
    /\ pc = "exited"
    /\ exitCode = 0
    /\ warnings = <<>>
    /\ summary.printed
    /\ summary.warnings = <<>>


\* the phases of document doc whose status is st
PhasesWith(doc, st) == { i \in 1..Len(doc.phases) : doc.phases[i].status = st }

\* the counters of document doc agree with its phases
CountersAgree(doc) ==
    /\ doc.summary.passed = Cardinality(PhasesWith(doc, "passed"))
    /\ doc.summary.failed = Cardinality(PhasesWith(doc, "failed"))
    /\ doc.summary.skipped = Cardinality(PhasesWith(doc, "skipped"))
    /\ doc.summary.total = Len(doc.phases)
    /\ doc.summary.passed + doc.summary.failed + doc.summary.skipped
          <= doc.summary.total

\* C34: in every written version of the summary passed + failed + skipped
\* is at most total and each counter is the number of phases with that
\* status, so their sum is the number of phases that are passed, failed or
\* skipped; from one version of a run to the next no counter decreases and
\* the sum grows by at most one per phase, each phase being counted once.
C34_SummaryCounters ==
    /\ \A i \in 1..Len(t_versions) : CountersAgree(t_versions[i].file.doc)
    /\ \A i \in 1..Len(fs.inodes) :
          fs.inodes[i].state = "complete" => CountersAgree(fs.inodes[i].doc)
    /\ \A r \in DOMAIN t_proc : CountersAgree(t_proc[r].data)
    /\ \A i, j \in 1..Len(t_versions) :
          (i < j /\ t_versions[i].by = t_versions[j].by) =>
              LET a == t_versions[i].file.doc.summary
                  b == t_versions[j].file.doc.summary
              IN /\ a.passed <= b.passed
                 /\ a.failed <= b.failed
                 /\ a.skipped <= b.skipped
                 /\ a.total = b.total

C34_Witness ==
    /\ Len(t_versions) = 4
    /\ t_versions[2].file.doc.phases[1].status = "running"
    /\ t_versions[2].file.doc.summary.failed = 0
    /\ t_versions[3].file.doc.phases[1].status = "failed"
    /\ t_versions[3].file.doc.summary
          = [passed |-> 0, failed |-> 1, skipped |-> 0, total |-> 1]
    /\ t_versions[4].file.doc.summary = t_versions[3].file.doc.summary


\* the value of line as a KEY= line: unquoted and lower-cased
LineValue(line) == Lower(Strip(AfterFirstEq(Strip(line, Whitespace)), Quotes))

\* the lines of a file that, stripped, are neither blank nor a comment and
\* start with key
KeyLines(lines, key) ==
    { i \in 1..Len(lines) :
        LET line == Strip(lines[i], Whitespace)
        IN line # <<>> /\ line[1] # "#" /\ StartsWith(line, key) }

\* the ENVIRONMENT= lines of the user-level file that decide: those with
\* value production or development, when the file can be read
DecisiveLines(env) ==
    IF env.user.exists /\ "user" \notin env.denied
    THEN { i \in KeyLines(env.user.lines, ENVIRONMENT_EQ) :
             LineValue(env.user.lines[i]) \in {production, development} }
    ELSE {}

\* C35: when the user-level file has an ENVIRONMENT= line with value
\* production or development, the first such line alone decides, whatever
\* the machine-level file holds: with development the runner goes on to run
\* the tests even under DEPLOYMENT_TYPE=production.  Only when the
\* user-level file is absent, unreadable or has no such line does the
\* machine-level file decide: production when a readable file has a
\* DEPLOYMENT_TYPE= line with value production.
C35_DetectionPrecedence ==
    LET K == DecisiveLines(t_env)
        result == is_production_environment(t_env)
    IN /\ K # {} =>
             LET first == CHOOSE i \in K : \A j \in K : i <= j
             IN /\ result.is_prod
                    <=> LineValue(t_env.user.lines[first]) = production
                /\ \A etc \in EtcConfigs, denied \in SUBSET {"etc"} :
                      is_production_environment(
                          [t_env EXCEPT !.etc = etc, !.denied = denied]) = result
       /\ K = {} =>
             result.is_prod
                <=> /\ t_env.etc.exists
                    /\ "etc" \notin t_env.denied
                    /\ \E i \in KeyLines(t_env.etc.lines, DEPLOYMENT_TYPE_EQ) :
                          LineValue(t_env.etc.lines[i]) = production
       /\ \A r \in DOMAIN t_proc :
             /\ (t_proc[r].pc = "done" /\ ~result.is_prod) => t_proc[r].ret \in {0, 1}
             /\ (t_proc[r].pc \notin {"start", "done"}) => ~result.is_prod
             /\ t_proc[r].child # "none" => ~result.is_prod

C35_Witness ==
    /\ t_env.user = UserDevelopment
    /\ t_env.etc = ConfProduction
    /\ t_env.denied = {}
    /\ t_proc[1].child = "exited"
    /\ t_proc[1].pc = "done"
    /\ t_proc[1].ret = 0


\* os.rename of runner r raised FileNotFoundError: main() was left with an
\* uncaught exception, exit status 1, although no phase had failed
RenameFailed(r) ==
    /\ t_proc[r].pc = "done"
    /\ t_proc[r].ret = 1
    /\ t_proc[r].all_passed

\* C36: with two runners on one host the file at the summary path is always
\* a complete document, no runner still holds the file at that path open
\* for writing, every version renamed into place is the complete document
\* of the runner that renamed it, and no rename fails.
C36_TwoRunnersShareTmpPath ==
    /\ ReadSummaryFile.state \in {"nofile", "complete"}
    /\ \A r \in DOMAIN t_proc :
          /\ t_proc[r].fd # 0 => t_proc[r].fd # fs.sum
          /\ ~RenameFailed(r)
    /\ \A i \in 1..Len(t_versions) :
          /\ t_versions[i].file.state = "complete"
          /\ t_versions[i].file.doc.status \in {"running", "passed", "failed"}

====
